---- MODULE Spec2Model ----
(***************************************************************************)
(* Verification model of the meditation-generation pipeline:               *)
(*   - the Step Functions workflow (src/src/meditation-workflow.ts),       *)
(*   - the four Lambda handlers it invokes (generate-script,               *)
(*     text-to-speech, join-speech-and-music, creation-failed),            *)
(*   - the request-intake handler that creates the Session record and      *)
(*     starts the execution,                                               *)
(*   - the SSML chunker chunkSSMLText,                                     *)
(*   - the track selector selectRandomMusicTrack,                          *)
(*   - the presigned-URL handler of the API.                               *)
(* Spec runs the workflow for two concurrent sessions; SpecTraced follows  *)
(* one session and keeps in its history what each handler did on the way;  *)
(* SpecEntry starts the first stage with every shape of input; SpecIntake  *)
(* runs the request intake alone; SpecUrl calls the presigned-URL handler  *)
(* beside the workflow; SpecTimed runs the workflow with the timeouts;     *)
(* SpecChunk and SpecSelect apply the chunker and the track selector to    *)
(* bounded sets of inputs.                                                 *)
(***************************************************************************)
EXTENDS Integers, Sequences, FiniteSets, TLC

(***************************************************************************)
(* Bounds of the model.                                                    *)
(***************************************************************************)
MaxChunks == 2       \* chunks the synthesizer loop iterates over

Sessions == {"s1", "s2"}
Users == {"u1"}

(***************************************************************************)
(* JSON documents are records; an undefined property is an absent one.     *)
(* A JSON string (the handlers' `body`) is a document wrapped by           *)
(* JSONstringify and unwrapped by JSONparse; JSON.stringify leaves out the *)
(* properties whose value is undefined, which Prop renders.                *)
(***************************************************************************)
EmptyObject == [f \in {} |-> ""]

Has(obj, f) == f \in DOMAIN obj

\* !obj.f for a string-valued property: undefined and "" are falsy
Truthy(obj, f) == Has(obj, f) /\ obj[f] # ""

\* the property `name: holder.f` of an object literal, as JSON.stringify
\* renders it: left out when holder.f is undefined
Prop(name, holder, f) == IF Has(holder, f) THEN (name :> holder[f]) ELSE EmptyObject

JSONstringify(obj) == [json |-> obj]

JSONparse(str) == str.json

(***************************************************************************)
(* Deployment wiring (environment variables of the Lambdas).               *)
(***************************************************************************)
UserSessionsBucket == "user-meditation-sessions-bucket"
MusicBucket == "music-bucket"

CREATION_BUCKET_NAME == UserSessionsBucket
USER_SESSION_BUCKET_NAME == UserSessionsBucket
BACKING_TRACK_BUCKET_NAME == MusicBucket

Buckets == {UserSessionsBucket, MusicBucket}

\* new Date().toISOString().split('T')[0] and Date.now(): the handler runs
\* of the model all read the same calendar day
currentDate == "2025-01-01"
currentTime == "t0"

\* `${userID}/${currentDate}/${sessionID}.${ext}`
ObjectKey_PerUserAndDay(userID, date, sessionID, ext) == <<userID, date, "audio", ext>>

ObjectKey(userID, date, sessionID, ext) == <<userID, date, sessionID, ext>>

(***************************************************************************)
(* The state machine definition.                                           *)
(***************************************************************************)
StageTasks == {"GenerateScript", "TextToSpeech", "JoinAudio"}
TaskStates == StageTasks \cup {"HandleFailure"}
ChoiceStates == {"CheckGenerateScriptStatus", "CheckTTSStatus", "CheckJoinAudioStatus"}
PassStates == {"GenerateScriptOK", "TextToSpeechOK"}
EndStates == {"WorkflowSucceeded", "WorkflowFailed"}

\* Chain.start(generateScript).next(check...).next(...): the Next of a state
NextOf(st) ==
    CASE st = "GenerateScript"   -> "CheckGenerateScriptStatus"
      [] st = "GenerateScriptOK" -> "TextToSpeech"
      [] st = "TextToSpeech"     -> "CheckTTSStatus"
      [] st = "TextToSpeechOK"   -> "JoinAudio"
      [] st = "JoinAudio"        -> "CheckJoinAudioStatus"
      [] st = "HandleFailure"    -> "WorkflowFailed"

\* .when(isStatus200, ...): the target of the matching rule
WhenTarget(st) ==
    CASE st = "CheckGenerateScriptStatus" -> "GenerateScriptOK"
      [] st = "CheckTTSStatus"            -> "TextToSpeechOK"
      [] st = "CheckJoinAudioStatus"      -> "WorkflowSucceeded"

\* .otherwise(handleFailure)
OtherwiseTarget_IgnoresStatus(st) == WhenTarget(st)

OtherwiseTarget_Retries(st) ==
    CASE st = "CheckGenerateScriptStatus" -> "GenerateScript"
      [] st = "CheckTTSStatus"            -> "TextToSpeech"
      [] st = "CheckJoinAudioStatus"      -> "JoinAudio"

OtherwiseTarget(st) == "HandleFailure"

\* sf.Condition.numberEquals('$.statusCode', 200)
isStatus200(doc) == Has(doc, "statusCode") /\ doc.statusCode = 200

\* addCatch(handleFailure, { resultPath: '$' }) on the three stage tasks;
\* HandleFailure itself has no Catch
CatchTarget(st) == IF st \in StageTasks THEN "HandleFailure" ELSE "none"

\* the error output that resultPath '$' puts in place of the state input
ErrorOutput == [Error |-> "States.TaskFailed", Cause |-> "cause"]

\* HandleFailure's payload refers to $.body and $.statusCode of its input
\* and to $$.Execution.Input; a reference path that selects nothing fails
\* the state with States.Runtime
HandleFailurePayloadResolves(doc) == Has(doc, "body") /\ Has(doc, "statusCode")

HandleFailurePayload(doc, executionInput) ==
    [error |-> doc.body, statusCode |-> doc.statusCode, input |-> executionInput]

(***************************************************************************)
(* State.                                                                  *)
(***************************************************************************)
VARIABLES
    table,       \* session store: sessionID -> item, or NoItem
    s3,          \* artifact store: bucket -> (key -> object)
    execStatus,  \* per session: status of its workflow execution
    execInput,   \* per session: the execution input ($$.Execution.Input)
    atState,     \* per session: the state the execution is in
    stateData,   \* per session: the input of the current state ($)
    inflight,    \* per session: the Lambda invocation in progress
    hist,        \* per session: what has happened (invocations, results, writes)
    tmp,         \* per session: the temp files of its Mixer invocation
    ssml,        \* chunker: the script given to chunkSSMLText
    chunks,      \* chunker: the chunks it returned
    chunked,     \* chunker: whether chunkSSMLText has run
    probedDuration, \* track selector: the speech duration it is called with
    randomDraw,     \* track selector: what Math.random() yields
    selectedTrack,  \* track selector: what selectRandomMusicTrack returned
    pickedEntry,    \* track selector: the catalog entry it took the path from
    requested,      \* request intake: the sessionIDs it has put a record for
    executionNames, \* request intake: execution name -> sessionID of its input
    presigned,      \* presigned-URL handler: its last call and what came of it
    spent           \* timing: per Lambda, the seconds its invocation has run

workflowVars == <<table, s3, execStatus, execInput, atState, stateData, inflight, hist, tmp>>
chunkerVars == <<ssml, chunks, chunked>>
selectorVars == <<probedDuration, randomDraw, selectedTrack, pickedEntry>>
intakeVars == <<requested, executionNames>>
apiVars == <<requested, executionNames, presigned>>
vars == <<table, s3, execStatus, execInput, atState, stateData, inflight, hist, tmp,
          ssml, chunks, chunked, probedDuration, randomDraw, selectedTrack, pickedEntry,
          requested, executionNames, presigned, spent>>

NoItem == [status |-> "NONE"]
NoInvocation == [fn |-> "none"]

Event(ev, who, code) == [ev |-> ev, who |-> who, code |-> code]

WorkflowInit ==
    /\ table = [s \in Sessions |-> NoItem]
    /\ s3 = [b \in Buckets |-> EmptyObject]
    /\ execStatus = [s \in Sessions |-> "NOT_STARTED"]
    /\ execInput = [s \in Sessions |-> EmptyObject]
    /\ atState = [s \in Sessions |-> "none"]
    /\ stateData = [s \in Sessions |-> EmptyObject]
    /\ inflight = [s \in Sessions |-> NoInvocation]
    /\ hist = [s \in Sessions |-> <<>>]
    /\ tmp = [s \in Sessions |-> {}]

\* chunkSSMLText has not been called
ChunkerIdle ==
    /\ ssml = <<>>
    /\ chunks = <<>>
    /\ chunked = FALSE

\* selectRandomMusicTrack has not been called
SelectorIdle ==
    /\ probedDuration = 0
    /\ randomDraw = 0
    /\ selectedTrack = "unselected"
    /\ pickedEntry = <<>>

\* the intake handler has not been called
IntakeIdle ==
    /\ requested = {}
    /\ executionNames = EmptyObject

Lambdas == {"generateScriptLambda", "textToSpeechLambda", "joinSpeechAndMusicLambda",
            "creationFailedLambda"}

\* no invocation has used any time
ClockIdle == spent = [fn \in Lambdas |-> 0]

\* the presigned-URL handler has not been called
NoCall == [sessionID |-> "", outcome |-> "none"]

UrlIdle == presigned = NoCall

Init ==
    /\ WorkflowInit
    /\ ChunkerIdle
    /\ SelectorIdle
    /\ IntakeIdle
    /\ UrlIdle
    /\ ClockIdle


(***************************************************************************)
(* Stores.  A handler run is summarised by the writes that took effect,    *)
(* in program order, and by the response it returned.                      *)
(***************************************************************************)
PutObjectCommand(bucket, key, body) ==
    [op |-> "put", bucket |-> bucket, key |-> key, body |-> body]

\* UpdateItemCommand with "SET #a = :a, ...": the named attributes are
\* set, the other attributes of the item are kept
UpdateItemCommand(sessionID, attrs) ==
    [op |-> "update", sessionID |-> sessionID, attrs |-> attrs]

ApplyPut(store, w) ==
    [store EXCEPT ![w.bucket] = (w.key :> w.body) @@ store[w.bucket]]

ApplyUpdate(tbl, w) ==
    [tbl EXCEPT ![w.sessionID] =
        [f \in (DOMAIN tbl[w.sessionID]) \cup (DOMAIN w.attrs) |->
            IF f \in DOMAIN w.attrs THEN w.attrs[f] ELSE tbl[w.sessionID][f]]]

RECURSIVE S3After(_, _)
S3After(store, writes) ==
    IF writes = <<>> THEN store
    ELSE S3After(IF Head(writes).op = "put" THEN ApplyPut(store, Head(writes)) ELSE store,
                 Tail(writes))

RECURSIVE TableAfter(_, _)
TableAfter(tbl, writes) ==
    IF writes = <<>> THEN tbl
    ELSE TableAfter(IF Head(writes).op = "update" THEN ApplyUpdate(tbl, Head(writes)) ELSE tbl,
                    Tail(writes))

\* the status writes among `writes`, as history events
RECURSIVE WriteEvents(_)
WriteEvents(writes) ==
    IF writes = <<>> THEN <<>>
    ELSE (IF Head(writes).op = "update"
          THEN <<Event("write", Head(writes).attrs.status, 0)>>
          ELSE <<>>) \o WriteEvents(Tail(writes))

ObjectExists(store, bucket, key) == key \in DOMAIN store[bucket]

Response(statusCode, bodyObject) ==
    [statusCode |-> statusCode, body |-> JSONstringify(bodyObject)]

Run(writes, resp) == [writes |-> writes, resp |-> resp]

\* a run together with what the handler did on the way, in program order
\* (calls of the speech engine, of the stores and of the external tools)
Traced(run, steps) == run @@ [steps |-> steps]

StepsOf(run) == IF Has(run, "steps") THEN run.steps ELSE <<>>

(***************************************************************************)
(* generate-script handler.                                                *)
(***************************************************************************)
\* what the fetch of the generation engine and the reading of its response
\* can come to:
\*   rejects    fetch (or reading the response) rejects
\*   notOk      a response with response.ok false
\*   noContent  a response without choices[0].message.content, or with ""
\*   text       a response with generated text
ScriptEngineResults == {"rejects", "notOk", "noContent", "text"}

\* whether the try block around the call leaves a GeneratedScript: it
\* throws on a rejected call, on !response.ok and on !text
EngineYieldsScript_NoContentCheck(engine) == engine \in {"text", "noContent"}

EngineYieldsScript(engine) == engine = "text"

GenerateScriptRun(event, date, engine, putOk) ==
    IF ~Truthy(event, "userID") \/ ~Truthy(event, "sessionID")
    THEN Run(<<>>, Response(400, [message |-> "userID & sessionID are required"]))
    ELSE IF ~EngineYieldsScript(engine)
    THEN Traced(Run(<<>>, Response(500, [message |-> "Error invoking DeepSeek API",
                                         error |-> "error",
                                         userID |-> event.userID,
                                         sessionID |-> event.sessionID])),
                <<Event("fetch", engine, 0)>>)
    ELSE IF ~putOk
    THEN Traced(Run(<<>>, Response(500, [message |-> "Error generating meditation script",
                                         error |-> "error"]
                                         @@ Prop("userID", event, "userID")
                                         @@ Prop("sessionID", event, "sessionID"))),
                <<Event("fetch", engine, 0), Event("putObject", "scriptRejected", 0)>>)
    ELSE Traced(Run(<<PutObjectCommand(CREATION_BUCKET_NAME,
                          ObjectKey(event.userID, date, event.sessionID, "json"),
                          [type |-> "script", id |-> event.sessionID])>>,
                    Response(200, [message |-> "Meditation script generated successfully",
                                   sessionID |-> event.sessionID,
                                   script |-> "ssml",
                                   userID |-> event.userID])),
                <<Event("fetch", engine, 0), Event("putObject", "script", 0)>>)

GenerateScriptRuns(event, date) ==
    {GenerateScriptRun(event, date, engine, putOk) :
        engine \in ScriptEngineResults, putOk \in BOOLEAN}

(***************************************************************************)
(* text-to-speech handler.  nChunks is the number of chunks chunkSSMLText  *)
(* returns for the script; engine[i] is what the speech engine does with   *)
(* chunk i.  The artifact store keeps which artifact an object is; the     *)
(* bytes given to it as Body are kept with the putObject step of the run.  *)
(***************************************************************************)
corsHeaders == [ContentType |-> "application/json"]

TTSResponse(statusCode, bodyObject) ==
    [statusCode |-> statusCode, headers |-> corsHeaders, body |-> JSONstringify(bodyObject)]

\* script.trim() of a script given as a whole: a script of white space only
\* becomes the empty string
WhitespaceOnly == {" ", "  "}

StringTrim(str) == IF str \in WhitespaceOnly THEN "" ELSE str

\* !script || script.trim().length === 0
ScriptIsEmpty_NoTrim(body) == ~Truthy(body, "script")

ScriptIsEmpty(body) == ~Truthy(body, "script") \/ StringTrim(body.script) = ""

\* what polly.send and the read of its AudioStream can come to:
\*   audio    a stream that carries bytes
\*   empty    a stream that ends without a byte
\*   missing  a response without AudioStream
\*   throws   the call (or the read of the stream) rejects
EngineResults == {"audio", "empty", "missing", "throws"}

\* streamToBuffer(pollyResponse.AudioStream): the bytes of chunk i
streamToBuffer(i, result) == IF result = "audio" THEN <<i>> ELSE <<>>

\* audioBuffers.push(buffer)
PushBuffer_Unshift(audioBuffers, buffer) == <<buffer>> \o audioBuffers

PushBuffer(audioBuffers, buffer) == Append(audioBuffers, buffer)

\* Buffer.concat(audioBuffers)
RECURSIVE BufferConcat(_)
BufferConcat(buffers) ==
    IF buffers = <<>> THEN <<>> ELSE Head(buffers) \o BufferConcat(Tail(buffers))

\* the for loop over the chunks, from chunk i on: one awaited engine call
\* per chunk; a rejected call or a response without AudioStream throws
RECURSIVE SynthesizeLoop(_, _, _, _, _)
SynthesizeLoop(i, nChunks, engine, audioBuffers, steps) ==
    IF i > nChunks
    THEN [ok |-> TRUE, audioBuffers |-> audioBuffers, steps |-> steps]
    ELSE IF engine[i] = "throws"
    THEN [ok |-> FALSE, audioBuffers |-> audioBuffers,
          steps |-> steps \o <<Event("send", "polly", i), Event("sendThrows", "polly", i)>>]
    ELSE IF engine[i] = "missing"
    THEN [ok |-> FALSE, audioBuffers |-> audioBuffers,
          steps |-> steps \o <<Event("send", "polly", i), Event("noAudioStream", "polly", i)>>]
    ELSE SynthesizeLoop(i + 1, nChunks, engine,
                        PushBuffer(audioBuffers, streamToBuffer(i, engine[i])),
                        steps \o <<Event("send", "polly", i),
                                   Event("buffer", engine[i], i)>>)

\* the body of the success response: the ids as received and the key the
\* speech was stored under
SpeechStoredBody_ScriptKey(body, speechAudioPath) ==
    [message |-> "Text-to-speech conversion successful",
     sessionID |-> body.sessionID,
     speechAudioPath |-> <<speechAudioPath[1], speechAudioPath[2], speechAudioPath[3], "json">>,
     userID |-> body.userID]

SpeechStoredBody(body, speechAudioPath) ==
    [message |-> "Text-to-speech conversion successful",
     sessionID |-> body.sessionID,
     speechAudioPath |-> speechAudioPath,
     userID |-> body.userID]

TextToSpeechRun(event, date, nChunks, engine, putOk) ==
    LET body == IF Has(event, "body") THEN JSONparse(event.body) ELSE EmptyObject
    IN  IF ~Truthy(body, "userID") \/ ~Truthy(body, "sessionID")
        THEN Run(<<>>, TTSResponse(400, [message |-> IF ~Truthy(body, "userID")
                                                      THEN "userID is required"
                                                      ELSE "sessionID is required"]))
        ELSE IF ScriptIsEmpty(body)
        THEN Run(<<>>, TTSResponse(400, [message |-> "Script content is empty"]))
        ELSE LET synth == SynthesizeLoop(1, nChunks, engine, <<>>,
                                         <<Event("chunks", "polly", nChunks)>>)
                 finalAudioBuffer == BufferConcat(synth.audioBuffers)
                 speechAudioPath == ObjectKey(body.userID, date, body.sessionID, "mp3")
                 failed == TTSResponse(500, [message |-> "Internal server error",
                                             error |-> "error"])
             IN  IF ~synth.ok
                 THEN Traced(Run(<<>>, failed), synth.steps)
                 ELSE IF ~putOk
                 THEN Traced(Run(<<>>, failed),
                             synth.steps \o <<Event("putObject", "speechRejected", 0)>>)
                 ELSE Traced(
                     Run(<<PutObjectCommand(CREATION_BUCKET_NAME, speechAudioPath,
                              [type |-> "speech", id |-> body.sessionID])>>,
                         TTSResponse(200, SpeechStoredBody(body, speechAudioPath))),
                     synth.steps \o <<Event("putObject", "speech", finalAudioBuffer)>>)

TextToSpeechRuns(event, date) ==
    UNION {{TextToSpeechRun(event, date, nChunks, engine, putOk) :
                engine \in [1..nChunks -> EngineResults], putOk \in BOOLEAN} :
           nChunks \in 1..MaxChunks}

(***************************************************************************)
(* join-speech-and-music handler.                                          *)
(***************************************************************************)
musicTracks ==
    << [path |-> "backing-track-1.mp3", duration |-> 300],
       [path |-> "backing-track-2.mp3", duration |-> 300],
       [path |-> "backing-track-3.mp3", duration |-> 480],
       [path |-> "backing-track-3.mp3", duration |-> 600] >>

RandomSteps == 4     \* Math.random() yields random / RandomSteps, in [0, 1)
SpeechDurations == {299, 300, 310, 480, 599, 600}

Null == "null"

\* track.duration > speechLength
IsSuitable_OrEqual(track, speechLength) == track.duration >= speechLength

IsSuitable(track, speechLength) == track.duration > speechLength

suitableTracks(speechLength) ==
    SelectSeq(musicTracks, LAMBDA track : IsSuitable(track, speechLength))

\* Math.floor(Math.random() * suitableTracks.length)
randomIndex_SkipsLast(random, length) == (random * (length - 1)) \div RandomSteps

randomIndex(random, length) == (random * length) \div RandomSteps

\* suitableTracks[randomIndex], when there is a suitable track
pickedTrack(speechLength, random) ==
    IF Len(suitableTracks(speechLength)) = 0
    THEN <<>>
    ELSE <<suitableTracks(speechLength)[randomIndex(random, Len(suitableTracks(speechLength))) + 1]>>

selectRandomMusicTrack(speechLength, random) ==
    IF Len(suitableTracks(speechLength)) = 0
    THEN Null
    ELSE suitableTracks(speechLength)[randomIndex(random, Len(suitableTracks(speechLength))) + 1].path

\* a key is a string; the empty string is the key without components
EmptyKey == <<>>

\* !speechAudioPath
NoSpeechAudioPath(body) ==
    ~Has(body, "speechAudioPath") \/ body.speechAudioPath = EmptyKey

createErrorResponse(statusCode, message, holder) ==
    Response(statusCode, [message |-> message, error |-> "error"]
                         @@ Prop("userID", holder, "userID")
                         @@ Prop("sessionID", holder, "sessionID"))

\* the handler uploads the final audio, then updates the session
JoinWrites_UpdateFirst(put, update) == <<update, put>>

JoinWrites(put, update) == <<put, update>>

\* after the update the handler only cleans up (errors ignored) and returns 200
JoinAfterUpdate_CleanupThrows(body, finalAudioKey) ==
    createErrorResponse(500, "Error joining speech and music", body)

JoinAfterUpdate(body, finalAudioKey) ==
    Response(200, [message |-> "Meditation audio created successfully",
                   meditationAudioKey |-> finalAudioKey])

\* the steps of the handler that can fail, in program order
JoinFailurePoints ==
    {"none", "downloadSpeech", "getAudioDuration", "downloadMusic", "ffmpegExit",
     "ffmpegSpawn", "putObject", "updateItem"}

\* how the spawned ffmpeg process ends: it closes with exit code 0, it
\* closes with another exit code, or it cannot be spawned ('error' event)
ffmpegOutcome(failAt) ==
    CASE failAt = "ffmpegExit"  -> "exit1"
      [] failAt = "ffmpegSpawn" -> "spawnError"
      [] OTHER                  -> "exit0"

\* mixAudio: whether the promise resolves (otherwise it rejects)
mixAudio_ResolvesOnAnyClose(outcome) == outcome \in {"exit0", "exit1"}

mixAudio(outcome) == outcome = "exit0"

\* the per-invocation temp directories and the files written into them
TempDirs == {"speechDir", "musicDir", "outputDir"}
speechFilePath == "speechDir/speech.mp3"
musicFilePath == "musicDir/background.mp3"
albumArtPath == "musicDir/album-art.jpg"
outputFilePath == "outputDir/final-meditation.mp3"

\* albumArtFilePath: undefined unless the cover art was downloaded and
\* written; a failed download is caught and only logged
albumArtFilePath_Always(albumArtOk) == <<albumArtPath>>

albumArtFilePath(albumArtOk) == IF albumArtOk THEN <<albumArtPath>> ELSE <<>>

\* the '-i' inputs of the ffmpeg command line mixAudio builds
ffmpegInputs(speechPath, musicPath, albumArt) == <<speechPath, musicPath>> \o albumArt

\* a run of the Mixer with the temp files it created (work) and the temp
\* files that are left when the handler returns (tmp)
WithTmp(run, work, left) == run @@ [work |-> work, tmp |-> left]

WorkOf(run) == IF Has(run, "work") THEN run.work ELSE {}

TmpOf(run) == IF Has(run, "tmp") THEN run.tmp ELSE {}

JoinRun(event, store, date, failAt, speechDuration, random, albumArtOk) ==
    LET body == IF Has(event, "body") THEN JSONparse(event.body) ELSE EmptyObject
    IN  IF ~Truthy(body, "userID")
        THEN Run(<<>>, Response(400, [message |-> "userID is required"]))
        ELSE IF ~Truthy(body, "sessionID")
        THEN Run(<<>>, Response(400, [message |-> "sessionID is required"]))
        ELSE IF NoSpeechAudioPath(body)
        THEN Run(<<>>, Response(400, [message |-> "speechAudioPath is required"]
                                     @@ Prop("userID", event, "userID")
                                     @@ Prop("sessionID", event, "sessionID")))
        ELSE IF failAt = "downloadSpeech"
                \/ ~ObjectExists(store, USER_SESSION_BUCKET_NAME, body.speechAudioPath)
        THEN Traced(Run(<<>>, createErrorResponse(500, "Error downloading speech audio", body)),
                    <<Event("getObject", "speechRejected", 0)>>)
        ELSE
        LET selectedMusicTrack == selectRandomMusicTrack(speechDuration, random)
            finalAudioKey == ObjectKey(body.userID, date, body.sessionID, "mp3")
            put == PutObjectCommand(USER_SESSION_BUCKET_NAME, finalAudioKey,
                       [type |-> "final",
                        speech |-> store[USER_SESSION_BUCKET_NAME][body.speechAudioPath],
                        music |-> selectedMusicTrack,
                        albumArt |-> albumArtFilePath(albumArtOk) # <<>>])
            update == UpdateItemCommand(body.sessionID,
                          [status |-> "COMPLETED", audioPath |-> finalAudioKey])
            \* temp files after each stretch of the handler
            speechWritten == TempDirs \cup {speechFilePath}
            musicWritten == speechWritten \cup {musicFilePath}
                                \cup (IF albumArtOk THEN {albumArtPath} ELSE {})
            mixed == musicWritten \cup {outputFilePath}
            \* what was done, up to each step
            downloaded == <<Event("getObject", "speech", 0), Event("mkdirSync", "tmp", 0)>>
            probed == downloaded \o <<Event("getAudioDuration", "ffprobe", speechDuration)>>
            selected == probed \o <<Event("selectRandomMusicTrack", selectedMusicTrack,
                                          speechDuration)>>
            musicLoaded == selected \o <<Event("getObject", "music", 0),
                                         Event("getObject", IF albumArtOk THEN "albumArt"
                                                            ELSE "albumArtMissing", 0)>>
            mixRun == musicLoaded \o
                      <<Event("mixAudio", ffmpegOutcome(failAt),
                              ffmpegInputs(speechFilePath, musicFilePath,
                                           albumArtFilePath(albumArtOk)))>>
            uploaded == mixRun \o <<Event("putObject", "final", 0)>>
        IN  IF failAt = "getAudioDuration"
            THEN WithTmp(Traced(Run(<<>>, createErrorResponse(500,
                                     "Error joining speech and music", event)),
                                downloaded \o <<Event("getAudioDuration", "rejected", 0)>>),
                         speechWritten, speechWritten)
            ELSE IF selectedMusicTrack = Null
            THEN WithTmp(Traced(Run(<<>>, createErrorResponse(400,
                                     "No suitable music track found for speech duration", body)),
                                selected),
                         speechWritten, speechWritten)
            ELSE IF failAt = "downloadMusic"
            THEN WithTmp(Traced(Run(<<>>, createErrorResponse(500,
                                     "Error downloading music audio", body)),
                                selected \o <<Event("getObject", "musicRejected", 0)>>),
                         speechWritten, speechWritten)
            ELSE IF ~mixAudio(ffmpegOutcome(failAt))
            THEN WithTmp(Traced(Run(<<>>, createErrorResponse(500,
                                     "Error joining speech and music", event)),
                                mixRun),
                         musicWritten, musicWritten)
            ELSE IF failAt = "putObject"
            THEN WithTmp(Traced(Run(<<>>, createErrorResponse(500,
                                     "Error joining speech and music", event)),
                                mixRun \o <<Event("putObject", "finalRejected", 0)>>),
                         mixed, mixed)
            ELSE IF failAt = "updateItem"
            THEN WithTmp(Traced(Run(<<put>>, createErrorResponse(500,
                                     "Error updating DynamoDB", body)),
                                uploaded \o <<Event("updateItem", "rejected", 0)>>),
                         mixed, mixed)
            ELSE WithTmp(Traced(Run(JoinWrites(put, update),
                                    JoinAfterUpdate(body, finalAudioKey)),
                                uploaded \o <<Event("updateItem", "COMPLETED", 0),
                                              Event("rmSync", "tmp", 0)>>),
                         mixed, {})

JoinRuns(event, store, date) ==
    {JoinRun(event, store, date, failAt, speechDuration, random, albumArtOk) :
        failAt \in JoinFailurePoints, speechDuration \in SpeechDurations,
        random \in 0..(RandomSteps - 1), albumArtOk \in BOOLEAN}

(***************************************************************************)
(* creation-failed handler.                                                *)
(***************************************************************************)
\* eventBody: event.body parsed, else event.input.body parsed, else
\* event.input, else {}
CreationFailedEventBody(event) ==
    IF Has(event, "body") THEN JSONparse(event.body)
    ELSE IF Has(event, "input") /\ Has(event.input, "body")
    THEN JSONparse(event.input.body)
    ELSE IF Has(event, "input") THEN event.input
    ELSE EmptyObject

CreationFailedRun(event, updateOk) ==
    LET eventBody == CreationFailedEventBody(event)
    IN  IF ~Truthy(eventBody, "sessionID")
        THEN Run(<<>>, Response(400, [message |-> "sessionID required"]))
        ELSE IF updateOk
        THEN Run(<<UpdateItemCommand(eventBody.sessionID, [status |-> "FAILED"])>>,
                 Response(200, [message |-> "Status updated to failed"]))
        ELSE Run(<<>>, Response(500, [message |-> "Failed to update status",
                                      error |-> "error"]))

CreationFailedRuns(event) == {CreationFailedRun(event, updateOk) : updateOk \in BOOLEAN}

(***************************************************************************)
(* Which handler a Task state invokes, and the runs it can make.           *)
(***************************************************************************)
LambdaOf(st) ==
    CASE st = "GenerateScript" -> "generateScriptLambda"
      [] st = "TextToSpeech"   -> "textToSpeechLambda"
      [] st = "JoinAudio"      -> "joinSpeechAndMusicLambda"
      [] st = "HandleFailure"  -> "creationFailedLambda"

Runs(fn, event, store, date) ==
    CASE fn = "generateScriptLambda"     -> GenerateScriptRuns(event, date)
      [] fn = "textToSpeechLambda"       -> TextToSpeechRuns(event, date)
      [] fn = "joinSpeechAndMusicLambda" -> JoinRuns(event, store, date)
      [] fn = "creationFailedLambda"     -> CreationFailedRuns(event)

(***************************************************************************)
(* Actions.                                                                *)
(***************************************************************************)
Log(s, events) == hist' = [hist EXCEPT ![s] = @ \o events]

\* the awaited calls of the intake handler, in program order: PutCommand of
\* the REQUESTED item, then startExecution
IntakeCalls_StartFirst == <<"startExecution", "PutCommand">>

IntakeCalls == <<"PutCommand", "startExecution">>

\* create-meditation (request intake) for a new sessionID: the first `done`
\* of its calls take effect (the next one throws and the handler rethrows).
\* The item and the execution input carry the same userID and sessionID.
CreateMeditation(s, userID, done) ==
    LET made == {IntakeCalls[i] : i \in 1..done}
        item == [userID |-> userID, sessionID |-> s,
                 status |-> "REQUESTED", timestamp |-> currentTime]
        input == [userID |-> userID, sessionID |-> s,
                  sessionInsights |-> "enhancedInsights"]
    IN  /\ table[s].status = "NONE"
        /\ execStatus[s] = "NOT_STARTED"
        /\ IF "PutCommand" \in made
           THEN /\ table' = [table EXCEPT ![s] = item]
                /\ Log(s, <<Event("create", "REQUESTED", 0)>>)
           ELSE UNCHANGED <<table, hist>>
        /\ IF "startExecution" \in made
           THEN /\ execStatus' = [execStatus EXCEPT ![s] = "RUNNING"]
                /\ execInput' = [execInput EXCEPT ![s] = input]
                /\ atState' = [atState EXCEPT ![s] = "GenerateScript"]
                /\ stateData' = [stateData EXCEPT ![s] = input]
           ELSE UNCHANGED <<execStatus, execInput, atState, stateData>>
        /\ UNCHANGED <<s3, inflight, tmp>>
        /\ UNCHANGED <<chunkerVars, selectorVars, apiVars, spent>>

\* a LambdaInvoke state is entered: its payload is built and the function
\* is invoked.  The stage tasks pass their whole input; HandleFailure
\* builds its payload from reference paths, and the execution fails
\* (States.Runtime) when one of them selects nothing.
EnterTask(s) ==
    /\ execStatus[s] = "RUNNING"
    /\ atState[s] \in TaskStates
    /\ inflight[s].fn = "none"
    /\ IF atState[s] = "HandleFailure" /\ ~HandleFailurePayloadResolves(stateData[s])
       THEN /\ execStatus' = [execStatus EXCEPT ![s] = "FAILED"]
            /\ Log(s, <<Event("abort", atState[s], 0)>>)
            /\ UNCHANGED inflight
       ELSE /\ inflight' = [inflight EXCEPT ![s] =
                   [fn |-> LambdaOf(atState[s]),
                    event |-> IF atState[s] = "HandleFailure"
                              THEN HandleFailurePayload(stateData[s], execInput[s])
                              ELSE stateData[s]]]
            /\ Log(s, <<Event("invoke", LambdaOf(atState[s]), 0)>>)
            /\ UNCHANGED execStatus
    /\ UNCHANGED <<table, s3, execInput, atState, stateData, tmp>>
    /\ UNCHANGED <<chunkerVars, selectorVars, apiVars, spent>>

\* the invoked handler runs to its return; outputPath '$.Payload' makes the
\* response the input of the task's Next state.  An execution that has
\* timed out meanwhile ignores the response.
HandlerCompletes(s, fn, traced) ==
    /\ inflight[s].fn = fn
    /\ \E run \in Runs(fn, inflight[s].event, s3, currentDate) :
        /\ s3' = S3After(s3, run.writes)
        /\ table' = TableAfter(table, run.writes)
        /\ tmp' = IF fn = "joinSpeechAndMusicLambda"
                  THEN [tmp EXCEPT ![s] = TmpOf(run)] ELSE tmp
        /\ Log(s, (IF traced THEN StepsOf(run) ELSE <<>>)
                  \o WriteEvents(run.writes)
                  \o <<Event(IF execStatus[s] = "RUNNING" THEN "return" ELSE "lateReturn",
                             fn, run.resp.statusCode)>>)
        /\ IF execStatus[s] = "RUNNING"
           THEN /\ stateData' = [stateData EXCEPT ![s] = run.resp]
                /\ atState' = [atState EXCEPT ![s] = NextOf(atState[s])]
           ELSE UNCHANGED <<stateData, atState>>
    /\ inflight' = [inflight EXCEPT ![s] = NoInvocation]
    /\ UNCHANGED <<execStatus, execInput>>
    /\ UNCHANGED <<chunkerVars, selectorVars, apiVars, spent>>

\* the history keeps the invocation, the status writes and the response
HandlerReturns(s, fn) == HandlerCompletes(s, fn, FALSE)

\* the history also keeps the handler's calls of the speech engine, of the
\* stores and of the external tools
HandlerReturnsTraced(s, fn) == HandlerCompletes(s, fn, TRUE)

GenerateScriptHandler(s) == HandlerReturns(s, "generateScriptLambda")

TextToSpeechHandler(s) == HandlerReturns(s, "textToSpeechLambda")

JoinSpeechMusicHandler(s) == HandlerReturns(s, "joinSpeechAndMusicLambda")

CreationFailedHandler(s) == HandlerReturns(s, "creationFailedLambda")

\* the invocation fails instead of returning (the function times out or
\* the runtime crashes), after any prefix of the writes of a run.  The
\* Catch of a stage task puts the error output in place of the state input
\* and goes to HandleFailure; HandleFailure has no Catch, so its failure
\* fails the execution.
TaskFailed(s) ==
    /\ inflight[s].fn # "none"
    /\ \E run \in Runs(inflight[s].fn, inflight[s].event, s3, currentDate) :
       \E n \in 0..Len(run.writes) :
        /\ s3' = S3After(s3, SubSeq(run.writes, 1, n))
        /\ table' = TableAfter(table, SubSeq(run.writes, 1, n))
        /\ \E left \in {WorkOf(run)} \cup (IF n = Len(run.writes) THEN {TmpOf(run)} ELSE {}) :
               tmp' = IF inflight[s].fn = "joinSpeechAndMusicLambda"
                      THEN [tmp EXCEPT ![s] = left] ELSE tmp
        /\ Log(s, WriteEvents(SubSeq(run.writes, 1, n))
                  \o <<Event(IF execStatus[s] = "RUNNING" THEN "throw" ELSE "lateThrow",
                             inflight[s].fn, 0)>>)
    /\ inflight' = [inflight EXCEPT ![s] = NoInvocation]
    /\ IF execStatus[s] # "RUNNING"
       THEN UNCHANGED <<stateData, atState, execStatus>>
       ELSE IF CatchTarget(atState[s]) # "none"
       THEN /\ stateData' = [stateData EXCEPT ![s] = ErrorOutput]
            /\ atState' = [atState EXCEPT ![s] = CatchTarget(atState[s])]
            /\ UNCHANGED execStatus
       ELSE /\ execStatus' = [execStatus EXCEPT ![s] = "FAILED"]
            /\ UNCHANGED <<stateData, atState>>
    /\ UNCHANGED execInput
    /\ UNCHANGED <<chunkerVars, selectorVars, apiVars, spent>>

\* a Choice state: the first matching rule, else the default
ChoiceStep(s) ==
    /\ execStatus[s] = "RUNNING"
    /\ atState[s] \in ChoiceStates
    /\ atState' = [atState EXCEPT ![s] =
           IF isStatus200(stateData[s]) THEN WhenTarget(atState[s])
           ELSE OtherwiseTarget(atState[s])]
    /\ UNCHANGED <<table, s3, execStatus, execInput, stateData, inflight, hist, tmp>>
    /\ UNCHANGED <<chunkerVars, selectorVars, apiVars, spent>>

\* a Pass state hands its input to its Next state
PassStep(s) ==
    /\ execStatus[s] = "RUNNING"
    /\ atState[s] \in PassStates
    /\ atState' = [atState EXCEPT ![s] = NextOf(atState[s])]
    /\ UNCHANGED <<table, s3, execStatus, execInput, stateData, inflight, hist, tmp>>
    /\ UNCHANGED <<chunkerVars, selectorVars, apiVars, spent>>

\* Succeed and Fail states end the execution
EndStep(s) ==
    /\ execStatus[s] = "RUNNING"
    /\ atState[s] \in EndStates
    /\ execStatus' = [execStatus EXCEPT ![s] =
           IF atState[s] = "WorkflowSucceeded" THEN "SUCCEEDED" ELSE "FAILED"]
    /\ Log(s, <<Event("end", atState[s], 0)>>)
    /\ UNCHANGED <<table, s3, execInput, atState, stateData, inflight, tmp>>
    /\ UNCHANGED <<chunkerVars, selectorVars, apiVars, spent>>

\* the state machine's timeout (15 minutes) elapses: the execution stops
\* where it is, with status TIMED_OUT; no further state is entered
ExecutionTimeout(s) ==
    /\ execStatus[s] = "RUNNING"
    /\ execStatus' = [execStatus EXCEPT ![s] = "TIMED_OUT"]
    /\ Log(s, <<Event("timeout", atState[s], 0)>>)
    /\ UNCHANGED <<table, s3, execInput, atState, stateData, inflight, tmp>>
    /\ UNCHANGED <<chunkerVars, selectorVars, apiVars, spent>>

Next ==
    \/ \E s \in Sessions, userID \in Users, done \in 1..Len(IntakeCalls) :
           CreateMeditation(s, userID, done)
    \/ \E s \in Sessions : EnterTask(s)
    \/ \E s \in Sessions : GenerateScriptHandler(s)
    \/ \E s \in Sessions : TextToSpeechHandler(s)
    \/ \E s \in Sessions : JoinSpeechMusicHandler(s)
    \/ \E s \in Sessions : CreationFailedHandler(s)
    \/ \E s \in Sessions : TaskFailed(s)
    \/ \E s \in Sessions : ChoiceStep(s)
    \/ \E s \in Sessions : PassStep(s)
    \/ \E s \in Sessions : EndStep(s)
    \/ \E s \in Sessions : ExecutionTimeout(s)

Spec == Init /\ [][Next]_vars

(***************************************************************************)
(* One session followed through the same workflow, its history keeping     *)
(* what each handler did on the way.                                       *)
(***************************************************************************)
TracedSession == "s1"

GenerateScriptTraced(s) == HandlerReturnsTraced(s, "generateScriptLambda")

TextToSpeechTraced(s) == HandlerReturnsTraced(s, "textToSpeechLambda")

JoinSpeechMusicTraced(s) == HandlerReturnsTraced(s, "joinSpeechAndMusicLambda")

CreationFailedTraced(s) == HandlerReturnsTraced(s, "creationFailedLambda")

TracedNext ==
    \/ \E userID \in Users, done \in 1..Len(IntakeCalls) :
           CreateMeditation(TracedSession, userID, done)
    \/ EnterTask(TracedSession)
    \/ GenerateScriptTraced(TracedSession)
    \/ TextToSpeechTraced(TracedSession)
    \/ JoinSpeechMusicTraced(TracedSession)
    \/ CreationFailedTraced(TracedSession)
    \/ TaskFailed(TracedSession)
    \/ ChoiceStep(TracedSession)
    \/ PassStep(TracedSession)
    \/ EndStep(TracedSession)
    \/ ExecutionTimeout(TracedSession)

SpecTraced == Init /\ [][TracedNext]_vars

(***************************************************************************)
(* A stage entered with any input document.  The execution is at the Task  *)
(* state of one stage; the state's input is drawn from the documents with  *)
(* each of the properties the handler reads absent, empty or present.      *)
(***************************************************************************)
\* a property that is absent, the empty string, or the given value
Choices(f, values) == {EmptyObject} \cup {f :> v : v \in values}

GenerateScriptEvents ==
    {u @@ sid @@ [sessionInsights |-> "enhancedInsights"] :
        u \in Choices("userID", {"", "u1"}),
        sid \in Choices("sessionID", {"", TracedSession})}

StageBodies(extra) ==
    {u @@ sid @@ x :
        u \in Choices("userID", {"", "u1"}),
        sid \in Choices("sessionID", {"", TracedSession}),
        x \in extra}

\* a document with statusCode 200 and the body as a JSON string, or without
\* a body
StageEvents(extra) ==
    {[statusCode |-> 200]}
        \cup {[statusCode |-> 200, body |-> JSONstringify(b)] : b \in StageBodies(extra)}

TextToSpeechEvents == StageEvents(Choices("script", {""} \cup WhitespaceOnly \cup {"ssml"}))

JoinEvents ==
    StageEvents(Choices("speechAudioPath",
                        {EmptyKey, ObjectKey("u1", currentDate, TracedSession, "mp3")}))

EntryEvents(st) ==
    CASE st = "GenerateScript" -> GenerateScriptEvents
      [] st = "TextToSpeech"   -> TextToSpeechEvents
      [] st = "JoinAudio"      -> JoinEvents

\* the artifacts the earlier stages have stored when stage st is entered
StoredBefore(st) ==
    LET script == PutObjectCommand(CREATION_BUCKET_NAME,
                      ObjectKey("u1", currentDate, TracedSession, "json"),
                      [type |-> "script", id |-> TracedSession])
        speech == PutObjectCommand(CREATION_BUCKET_NAME,
                      ObjectKey("u1", currentDate, TracedSession, "mp3"),
                      [type |-> "speech", id |-> TracedSession])
    IN  CASE st = "GenerateScript" -> <<>>
          [] st = "TextToSpeech"   -> <<script>>
          [] st = "JoinAudio"      -> <<script, speech>>

EntryInit ==
    /\ ChunkerIdle
    /\ SelectorIdle
    /\ IntakeIdle
    /\ UrlIdle
    /\ ClockIdle
    /\ \E st \in StageTasks : \E event \in EntryEvents(st) :
        /\ table = [s \in Sessions |->
                       IF s = TracedSession
                       THEN [userID |-> "u1", sessionID |-> s,
                             status |-> "REQUESTED", timestamp |-> currentTime]
                       ELSE NoItem]
        /\ s3 = S3After([b \in Buckets |-> EmptyObject], StoredBefore(st))
        /\ execStatus = [s \in Sessions |->
                            IF s = TracedSession THEN "RUNNING" ELSE "NOT_STARTED"]
        /\ execInput = [s \in Sessions |->
                           IF s # TracedSession THEN EmptyObject
                           ELSE IF st = "GenerateScript" THEN event
                           ELSE [userID |-> "u1", sessionID |-> s,
                                 sessionInsights |-> "enhancedInsights"]]
        /\ atState = [s \in Sessions |-> IF s = TracedSession THEN st ELSE "none"]
        /\ stateData = [s \in Sessions |-> IF s = TracedSession THEN event ELSE EmptyObject]
        /\ inflight = [s \in Sessions |-> NoInvocation]
        /\ hist = [s \in Sessions |-> <<>>]
        /\ tmp = [s \in Sessions |-> {}]

EntryNext ==
    \/ EnterTask(TracedSession)
    \/ GenerateScriptTraced(TracedSession)
    \/ TextToSpeechTraced(TracedSession)
    \/ JoinSpeechMusicTraced(TracedSession)
    \/ CreationFailedTraced(TracedSession)
    \/ TaskFailed(TracedSession)
    \/ ChoiceStep(TracedSession)
    \/ PassStep(TracedSession)
    \/ EndStep(TracedSession)
    \/ ExecutionTimeout(TracedSession)

SpecEntry == EntryInit /\ [][EntryNext]_vars

(***************************************************************************)
(* The request-intake handler called again and again.  uuidv4() yields a   *)
(* sessionID that was not drawn before; of the sessionID the model keeps   *)
(* its first 8 characters and the rest.  The state machine is a Standard   *)
(* workflow: StartExecution with a name that an execution with another     *)
(* input already has is rejected (ExecutionAlreadyExists).                 *)
(***************************************************************************)
MaxPrefixes == 2     \* values of the first 8 characters of a sessionID
MaxSuffixes == 3     \* values of the remaining characters

\* what uuidv4() can yield
UUIDs == (1..MaxPrefixes) \X (1..MaxSuffixes)

\* sessionID.substring(0, 8)
substring8(sessionID) == sessionID[1]

\* name: `meditation-${sessionID.substring(0, 8)}`
ExecutionName(sessionID) == <<"meditation-", substring8(sessionID)>>

\* stepFunctions.startExecution({ name, input }): whether it starts an
\* execution; otherwise it rejects
startExecution(name, registry, serviceOk) == serviceOk /\ name \notin DOMAIN registry

IntakeInit ==
    /\ WorkflowInit
    /\ ChunkerIdle
    /\ SelectorIdle
    /\ IntakeIdle
    /\ UrlIdle
    /\ ClockIdle

\* create-meditation: the PutCommand of the REQUESTED item has taken effect,
\* then startExecution is awaited; when it rejects the handler rethrows
\* and the item is left as it is
Intake(sessionID, serviceOk) ==
    /\ sessionID \notin requested
    /\ requested' = requested \cup {sessionID}
    /\ executionNames' =
           IF startExecution(ExecutionName(sessionID), executionNames, serviceOk)
           THEN (ExecutionName(sessionID) :> sessionID) @@ executionNames
           ELSE executionNames
    /\ UNCHANGED <<workflowVars, chunkerVars, selectorVars, presigned, spent>>

IntakeNext == \E sessionID \in UUIDs, serviceOk \in BOOLEAN : Intake(sessionID, serviceOk)

SpecIntake == IntakeInit /\ [][IntakeNext]_vars

(***************************************************************************)
(* get-meditation-session-presigned-url, called at any moment of the       *)
(* traced session's workflow, for that session, for a session without a    *)
(* record, or without a sessionID.                                         *)
(***************************************************************************)
MEDITATION_BUCKET == UserSessionsBucket

\* GetItemCommand with Key { sessionID }: the response's Item, undefined
\* when the table has no such item
GetItem(tbl, sessionID) ==
    IF sessionID \in DOMAIN tbl /\ tbl[sessionID] # NoItem THEN <<tbl[sessionID]>> ELSE <<>>

\* sessionData.Item?.audioPath?.S
objectKeyOf(Item) ==
    IF Item # <<>> /\ Has(Item[1], "audioPath") THEN Item[1].audioPath ELSE EmptyKey

\* !objectKey
NoObjectKey_Unchecked(objectKey) == FALSE

NoObjectKey(objectKey) == objectKey = EmptyKey

Thrown(message) == [outcome |-> "throws", message |-> message]

\* what the handler comes to: it returns { presignedUrl } or it throws
PresignedUrlResponse(sessionID, tbl, getItemOk, signOk) ==
    IF sessionID = ""
    THEN Thrown("sessionID is required")
    ELSE IF ~getItemOk
    THEN Thrown("Failed to retrieve meditation session")
    ELSE LET objectKey == objectKeyOf(GetItem(tbl, sessionID))
         IN  IF NoObjectKey(objectKey)
             THEN Thrown("audioPath is required")
             ELSE IF ~signOk
             THEN Thrown("Failed to generate audio access URL")
             ELSE [outcome |-> "returns",
                   presignedUrl |-> [Bucket |-> MEDITATION_BUCKET, Key |-> objectKey]]

UrlRequests == Sessions \cup {""}

GetPresignedUrl(sessionID, getItemOk, signOk) ==
    /\ presigned' = [sessionID |-> sessionID]
                        @@ PresignedUrlResponse(sessionID, table, getItemOk, signOk)
    /\ UNCHANGED <<workflowVars, chunkerVars, selectorVars, intakeVars, spent>>

UrlNext ==
    \/ TracedNext
    \/ \E sessionID \in UrlRequests, getItemOk \in BOOLEAN, signOk \in BOOLEAN :
           GetPresignedUrl(sessionID, getItemOk, signOk)

SpecUrl == Init /\ [][UrlNext]_vars

(***************************************************************************)
(* The traced session's workflow with time.  Time passes while a Lambda    *)
(* invocation runs, in steps of TimeStep seconds and up to the function's  *)
(* timeout; the transitions of the state machine take no time.  An         *)
(* invocation returns within its timeout; at the timeout it can only fail. *)
(* Each function is invoked at most once in an execution, so the time of   *)
(* the execution is the sum of the times of its invocations.  The          *)
(* execution timeout is due when that sum reaches the state machine's      *)
(* timeout.                                                                *)
(***************************************************************************)
TimeStep == 60

\* timeout: cdk.Duration.minutes(n) / seconds(n) of each function, in seconds
TimeLimit_LongSynthesis(fn) ==
    CASE fn = "generateScriptLambda"     -> 3 * 60
      [] fn = "textToSpeechLambda"       -> 10 * 60
      [] fn = "joinSpeechAndMusicLambda" -> 3 * 60
      [] fn = "creationFailedLambda"     -> 10

TimeLimit(fn) ==
    CASE fn = "generateScriptLambda"     -> 3 * 60
      [] fn = "textToSpeechLambda"       -> 5 * 60
      [] fn = "joinSpeechAndMusicLambda" -> 3 * 60
      [] fn = "creationFailedLambda"     -> 10

\* the state machine's timeout: cdk.Duration.minutes(15), in seconds
WorkflowBudget == 900

\* the seconds the execution has run
Elapsed ==
    spent["generateScriptLambda"] + spent["textToSpeechLambda"]
        + spent["joinSpeechAndMusicLambda"] + spent["creationFailedLambda"]

Min(a, b) == IF a <= b THEN a ELSE b

\* the invocation in progress goes on running
Tick(s) ==
    /\ execStatus[s] = "RUNNING"
    /\ inflight[s].fn # "none"
    /\ spent[inflight[s].fn] < TimeLimit(inflight[s].fn)
    /\ spent' = [spent EXCEPT ![inflight[s].fn] =
                     Min(@ + TimeStep, TimeLimit(inflight[s].fn))]
    /\ UNCHANGED <<workflowVars, chunkerVars, selectorVars, apiVars>>

\* the handler returns within its timeout
ReturnsInTime(s, fn) ==
    /\ spent[fn] <= TimeLimit(fn)
    /\ HandlerReturns(s, fn)

TimedNext ==
    \/ \E userID \in Users, done \in 1..Len(IntakeCalls) :
           CreateMeditation(TracedSession, userID, done)
    \/ EnterTask(TracedSession)
    \/ Tick(TracedSession)
    \/ \E fn \in Lambdas : ReturnsInTime(TracedSession, fn)
    \/ TaskFailed(TracedSession)
    \/ ChoiceStep(TracedSession)
    \/ PassStep(TracedSession)
    \/ EndStep(TracedSession)

SpecTimed == Init /\ [][TimedNext]_vars

(***************************************************************************)
(* selectRandomMusicTrack applied to a probed duration and a random draw.  *)
(***************************************************************************)
ProbedDurations == (295..305) \cup (475..485) \cup (595..605) \cup {0, 310}

SelectInit ==
    /\ WorkflowInit
    /\ ChunkerIdle
    /\ IntakeIdle
    /\ UrlIdle
    /\ ClockIdle
    /\ probedDuration \in ProbedDurations
    /\ randomDraw \in 0..(RandomSteps - 1)
    /\ selectedTrack = "unselected"
    /\ pickedEntry = <<>>

\* the Mixer's call selectRandomMusicTrack(speechDuration)
Select ==
    /\ selectedTrack = "unselected"
    /\ selectedTrack' = selectRandomMusicTrack(probedDuration, randomDraw)
    /\ pickedEntry' = pickedTrack(probedDuration, randomDraw)
    /\ UNCHANGED <<probedDuration, randomDraw, workflowVars, chunkerVars, apiVars, spent>>

SelectNext == Select

SpecSelect == SelectInit /\ [][SelectNext]_vars

(***************************************************************************)
(* chunkSSMLText.  A string is a sequence of tokens: a tag, a run of text  *)
(* (without white space at its ends) or a white-space character; n is the  *)
(* number of characters of the token.                                      *)
(***************************************************************************)
Token(k, n, id) == [k |-> k, n |-> n, id |-> id]

SpeakOpen == Token("<speak>", 7, 0)
SpeakClose == Token("</speak>", 8, 0)
ProsodySlow == Token("<prosody>", 21, 0)     \* <prosody rate="slow">, added by the chunker
ScriptProsody == Token("<prosody>", 21, 1)   \* a <prosody rate=...> of the script itself
ProsodyClose == Token("</prosody>", 10, 0)
Space == Token(" ", 1, 0)
BreakTag(id) == Token("<break/>", 18, id)    \* <break time="2s"/>
Text(id, n) == Token("text", n, id)

RECURSIVE StrLen(_)
StrLen(str) == IF str = <<>> THEN 0 ELSE Head(str).n + StrLen(Tail(str))

RECURSIVE TrimStart(_)
TrimStart(str) ==
    IF str # <<>> /\ Head(str).k = " " THEN TrimStart(Tail(str)) ELSE str

RECURSIVE TrimEnd(_)
TrimEnd(str) ==
    IF str # <<>> /\ str[Len(str)].k = " "
    THEN TrimEnd(SubSeq(str, 1, Len(str) - 1))
    ELSE str

\* String.prototype.trim
Trim(str) == TrimEnd(TrimStart(str))

\* ssml.replace(/<\/?speak>/g, '')
RemoveSpeakTags(str) == SelectSeq(str, LAMBDA tok : tok.k \notin {"<speak>", "</speak>"})

\* /<prosody[^>]*rate\s*=/i.test(cleanedSSML)
hasRateControl(cleanedSSML) == \E i \in DOMAIN cleanedSSML : cleanedSSML[i].k = "<prosody>"

\* wrappedContent.match(/<prosody[^>]*>/): the first opening prosody tag
prosodyMatch(str) ==
    LET hits == {i \in DOMAIN str : str[i].k = "<prosody>"}
    IN  IF hits = {} THEN <<>>
        ELSE <<str[CHOOSE i \in hits : \A j \in hits : i <= j]>>

\* wrappedContent.match(/<break[^>]*\/>/g) || []
BreakMatches(str) == SelectSeq(str, LAMBDA tok : tok.k = "<break/>")

\* wrappedContent.split(/<break[^>]*\/>/g)
RECURSIVE SplitOnBreaks(_, _)
SplitOnBreaks(str, part) ==
    IF str = <<>> THEN <<part>>
    ELSE IF Head(str).k = "<break/>"
    THEN <<part>> \o SplitOnBreaks(Tail(str), <<>>)
    ELSE SplitOnBreaks(Tail(str), Append(part, Head(str)))

maxLengthDefault == 3000

speakWrapperLength == StrLen(<<SpeakOpen, SpeakClose>>)

prosodyWrapperLength(rateControl) ==
    IF rateControl THEN 0 ELSE StrLen(<<ProsodySlow, ProsodyClose>>)

safeMaxLength_AlwaysPacing(maxLength, rateControl) ==
    maxLength - speakWrapperLength - prosodyWrapperLength(FALSE)

safeMaxLength(maxLength, rateControl) ==
    maxLength - speakWrapperLength - prosodyWrapperLength(rateControl)

Speak(content) == <<SpeakOpen>> \o content \o <<SpeakClose>>

\* the chunk pushed when the running chunk is closed
ClosedChunk_CutsTail(current, openingTags) ==
    Speak(SubSeq(Trim(current), 1, Len(Trim(current)) - 1)
          \o (IF Len(openingTags) > 0 THEN <<ProsodyClose>> ELSE <<>>))

ClosedChunk(current, openingTags) ==
    Speak(Trim(current) \o (IF Len(openingTags) > 0 THEN <<ProsodyClose>> ELSE <<>>))

\* the running chunk restarted with the overflowing part
Restart_DropsPart(openingTags, part, nextBreak) ==
    (IF Len(openingTags) > 0 THEN openingTags \o <<Space>> ELSE <<>>) \o nextBreak

Restart(openingTags, part, nextBreak) ==
    (IF Len(openingTags) > 0 THEN openingTags \o <<Space>> ELSE <<>>) \o part \o nextBreak

\* candidate.length > safeMaxLength && current.trim()
MustClose_AtLimit(candidate, current, safeMax) ==
    StrLen(candidate) >= safeMax /\ Trim(current) # <<>>

MustClose(candidate, current, safeMax) ==
    StrLen(candidate) > safeMax /\ Trim(current) # <<>>

\* the for loop over parts, from index i on
RECURSIVE ChunkLoop(_, _, _, _, _, _, _)
ChunkLoop(i, parts, breaks, openingTags, safeMax, current, out) ==
    IF i > Len(parts)
    THEN IF Trim(current) # <<>> THEN Append(out, Speak(Trim(current))) ELSE out
    ELSE LET part == parts[i]
             nextBreak == IF i <= Len(breaks) THEN <<breaks[i]>> ELSE <<>>
             candidate == current \o part \o nextBreak
         IN  IF MustClose(candidate, current, safeMax)
             THEN ChunkLoop(i + 1, parts, breaks, openingTags, safeMax,
                            Restart(openingTags, part, nextBreak),
                            Append(out, ClosedChunk(current, openingTags)))
             ELSE ChunkLoop(i + 1, parts, breaks, openingTags, safeMax, candidate, out)

chunkSSMLText(script, maxLength) ==
    LET cleanedSSML == Trim(RemoveSpeakTags(script))
        rateControl == hasRateControl(cleanedSSML)
        safeMax == safeMaxLength(maxLength, rateControl)
        wrappedContent == IF rateControl THEN cleanedSSML
                          ELSE <<ProsodySlow>> \o cleanedSSML \o <<ProsodyClose>>
    IN  IF StrLen(wrappedContent) <= safeMax
        THEN <<Speak(wrappedContent)>>
        ELSE ChunkLoop(1, SplitOnBreaks(wrappedContent, <<>>), BreakMatches(wrappedContent),
                       prosodyMatch(wrappedContent), safeMax, <<>>, <<>>)

(***************************************************************************)
(* The scripts the chunker is run on: up to MaxSegments runs of text       *)
(* separated by break tags, with or without white space around the tags,   *)
(* inside or not inside <speak>, with or without a prosody element of      *)
(* their own, which spans the segments paced[1]..paced[2] (none: <<0, 0>>),*)
(* and with or without a break before the first and after the last         *)
(* segment (the generation prompt asks for a pause at the start); and the  *)
(* script without content, <speak></speak>.                                *)
(***************************************************************************)
MaxSegments == 3
TextLengths == {700, 1437, 1460, 2930, 3000}

RECURSIVE Segments(_, _, _, _)
Segments(lengths, i, spaced, paced) ==
    IF i > Len(lengths) THEN <<>>
    ELSE (IF i > 1
          THEN (IF spaced THEN <<Space, BreakTag(i - 1), Space>> ELSE <<BreakTag(i - 1)>>)
          ELSE <<>>)
         \o (IF i = paced[1] THEN <<ScriptProsody>> ELSE <<>>)
         \o <<Text(i, lengths[i])>>
         \o (IF i = paced[2] THEN <<ProsodyClose>> ELSE <<>>)
         \o Segments(lengths, i + 1, spaced, paced)

MakeScript(lengths, spaced, paced, speak, lead, trail) ==
    LET content == (IF lead THEN <<BreakTag(0)>> ELSE <<>>)
                   \o Segments(lengths, 1, spaced, paced)
                   \o (IF trail THEN <<BreakTag(Len(lengths))>> ELSE <<>>)
    IN  IF speak THEN Speak(content) ELSE content

PacedRanges(n) == {<<0, 0>>} \cup {r \in (1..n) \X (1..n) : r[1] <= r[2]}

ChunkInit ==
    /\ WorkflowInit
    /\ SelectorIdle
    /\ IntakeIdle
    /\ UrlIdle
    /\ ClockIdle
    /\ \/ ssml = Speak(<<>>)
       \/ \E n \in 1..MaxSegments : \E lengths \in [1..n -> TextLengths] :
              \E paced \in PacedRanges(n), spaced \in BOOLEAN, speak \in BOOLEAN,
                 lead \in BOOLEAN, trail \in BOOLEAN :
                  ssml = MakeScript(lengths, spaced, paced, speak, lead, trail)
    /\ chunks = <<>>
    /\ chunked = FALSE

\* the synthesizer's call chunkSSMLText(script)
Chunk ==
    /\ ~chunked
    /\ ssml # <<>>
    /\ chunks' = chunkSSMLText(ssml, maxLengthDefault)
    /\ chunked' = TRUE
    /\ UNCHANGED <<ssml, workflowVars, selectorVars, apiVars, spent>>

ChunkNext == Chunk

SpecChunk == ChunkInit /\ [][ChunkNext]_vars

(***************************************************************************)
(* Reading the history of a session.                                       *)
(***************************************************************************)
StageLambdas == {"generateScriptLambda", "textToSpeechLambda", "joinSpeechAndMusicLambda"}

Positions(s, ev, who) ==
    {i \in DOMAIN hist[s] : hist[s][i].ev = ev /\ hist[s][i].who = who}

Count(s, ev, who) == Cardinality(Positions(s, ev, who))

\* the stage's response reached the workflow with this status code
Returned(s, fn, code) ==
    \E i \in Positions(s, "return", fn) : hist[s][i].code = code

ReturnedNon200(s, fn) ==
    \E i \in Positions(s, "return", fn) : hist[s][i].code # 200

SomeStageReturnedNon200(s) == \E fn \in StageLambdas : ReturnedNon200(s, fn)

SomeStageThrew(s) == \E fn \in StageLambdas : Count(s, "throw", fn) > 0

StatusWrites(s) == {i \in DOMAIN hist[s] : hist[s][i].ev = "write"}

Ended(s) == execStatus[s] \in {"SUCCEEDED", "FAILED"}

TerminalStatus(status) == status \in {"COMPLETED", "FAILED"}

(***************************************************************************)
(* C1  Session monotonicity.  Once the Session's status is COMPLETED or    *)
(* FAILED no step changes the record, and at most one status write (the    *)
(* Mixer's COMPLETED or the failure handler's FAILED) ever takes effect    *)
(* for a session.                                                          *)
(***************************************************************************)
C1_MonotoneStep ==
    \A s \in Sessions :
        /\ TerminalStatus(table[s].status) => table'[s] = table[s]
        /\ table'[s] # table[s] /\ table[s].status # "NONE"
               => table[s].status = "REQUESTED" /\ StatusWrites(s) = {}

NoStageAfter(s, fn) ==
    \A i \in Positions(s, "return", fn) :
        \A j \in DOMAIN hist[s] :
            j > i /\ hist[s][j].ev = "invoke" => hist[s][j].who = "creationFailedLambda"

C2_SingleFailurePath ==
    \A s \in Sessions :
        SomeStageReturnedNon200(s) /\ Ended(s) /\ atState[s] \in EndStates =>
            /\ \A fn \in StageLambdas : ReturnedNon200(s, fn) => NoStageAfter(s, fn)
            /\ Count(s, "invoke", "creationFailedLambda") = 1
            /\ Count(s, "write", "FAILED") = 1
            /\ table[s].status = "FAILED"
            /\ ~Has(table[s], "audioPath")

(***************************************************************************)
(* C3  A thrown stage fault is handled like a reported one.  When a stage  *)
(* invocation has thrown and the execution has ended, the failure handler  *)
(* was invoked with the execution input, the Session is FAILED and the     *)
(* execution is in WorkflowFailed.                                         *)
(***************************************************************************)
C3_ThrownLikeReported ==
    \A s \in Sessions :
        SomeStageThrew(s) /\ Ended(s) =>
            /\ Count(s, "invoke", "creationFailedLambda") = 1
            /\ table[s].status = "FAILED"
            /\ atState[s] = "WorkflowFailed"

(***************************************************************************)
(* C4  Stages run strictly sequentially.  TextToSpeech is invoked only     *)
(* after GenerateScript returned 200, JoinAudio only after TextToSpeech    *)
(* returned 200, and a function is invoked only when every earlier         *)
(* invocation of the execution has returned or thrown.                     *)
(***************************************************************************)
InvokedOnlyAfter200(s, fn, before) ==
    \A j \in Positions(s, "invoke", fn) :
        \E i \in Positions(s, "return", before) : i < j /\ hist[s][i].code = 200

C4_StagesSequential ==
    \A s \in Sessions :
        /\ InvokedOnlyAfter200(s, "textToSpeechLambda", "generateScriptLambda")
        /\ InvokedOnlyAfter200(s, "joinSpeechAndMusicLambda", "textToSpeechLambda")
        /\ \A i, j \in DOMAIN hist[s] :
               i < j /\ hist[s][i].ev = "invoke" /\ hist[s][j].ev = "invoke"
                   => \E k \in DOMAIN hist[s] :
                          /\ i < k /\ k < j
                          /\ hist[s][k].ev \in {"return", "throw"}
                          /\ hist[s][k].who = hist[s][i].who

\* the third stage is in progress
C4_Witness ==
    \E s \in Sessions :
        /\ inflight[s].fn = "joinSpeechAndMusicLambda"
        /\ execStatus[s] = "RUNNING"

(***************************************************************************)
(* C5  An execution in WorkflowFailed has recorded the failure: the        *)
(* Session's status is FAILED.                                             *)
(***************************************************************************)
C5_FailureRecorded ==
    \A s \in Sessions : atState[s] = "WorkflowFailed" => table[s].status = "FAILED"

(***************************************************************************)
(* C6  Timeout routing.  When the execution's time budget has run out      *)
(* while a stage was in progress, and that invocation is over, the failure *)
(* handler has been invoked and the Session is FAILED.                     *)
(***************************************************************************)
TimedOutDuringStage(s) ==
    \E i \in DOMAIN hist[s] :
        /\ hist[s][i].ev = "timeout"
        /\ i > 1
        /\ hist[s][i - 1].ev = "invoke"
        /\ hist[s][i - 1].who \in StageLambdas

C6_TimeoutRouting ==
    \A s \in Sessions :
        TimedOutDuringStage(s) /\ inflight[s].fn = "none" =>
            /\ Count(s, "invoke", "creationFailedLambda") = 1
            /\ table[s].status = "FAILED"

C8_Termination ==
    \A s \in Sessions :
        Ended(s) =>
            /\ atState[s] \in EndStates
            /\ atState[s] = "WorkflowSucceeded" =>
                   \A fn \in StageLambdas : Returned(s, fn, 200)
            /\ \A i \in DOMAIN hist[s] : hist[s][i].ev = "end" => i = Len(hist[s])

C10_ChunkLength ==
    chunked => \A i \in DOMAIN chunks : StrLen(chunks[i]) <= maxLengthDefault

(***************************************************************************)
(* C11  Chunk wrapping invariant.  Every chunk chunkSSMLText returns       *)
(* starts with <speak>, ends with </speak>, has no other <speak> tag, and  *)
(* in it every opening <prosody> tag has one matching closing tag and no   *)
(* closing tag comes without an opening one.                               *)
(***************************************************************************)
RECURSIVE Balanced(_, _)
Balanced(str, depth) ==
    IF str = <<>> THEN depth = 0
    ELSE IF Head(str).k = "<prosody>" THEN Balanced(Tail(str), depth + 1)
    ELSE IF Head(str).k = "</prosody>" THEN depth > 0 /\ Balanced(Tail(str), depth - 1)
    ELSE Balanced(Tail(str), depth)

Inner(chunk) == SubSeq(chunk, 2, Len(chunk) - 1)

ValidMarkup(chunk) ==
    /\ Len(chunk) >= 2
    /\ chunk[1] = SpeakOpen
    /\ chunk[Len(chunk)] = SpeakClose
    /\ RemoveSpeakTags(Inner(chunk)) = Inner(chunk)
    /\ Balanced(Inner(chunk), 0)

C11_ChunkWrapping ==
    chunked => \A i \in DOMAIN chunks : ValidMarkup(chunks[i])

(***************************************************************************)
(* C12  Order and content preservation.  Taking from each chunk its        *)
(* <speak> wrapper, the opening <prosody> tag the chunker added or         *)
(* re-opened at its start and the </prosody> it added at its end, and      *)
(* concatenating what is left in output order, gives the script's content  *)
(* (white space aside): every segment and every break once, in order.      *)
(***************************************************************************)
NoSpace(str) == SelectSeq(str, LAMBDA tok : tok.k # " ")

\* the chunker put an opening tag at the start of every chunk but the
\* first, and a closing tag at the end of every chunk but the last; when
\* the script has no rate control it also wrapped the whole content
ChunkBody(chunk, i, n, rateControl) ==
    LET inner == NoSpace(Inner(chunk))
        lead == IF (i > 1 \/ ~rateControl) /\ inner # <<>> /\ Head(inner).k = "<prosody>"
                THEN Tail(inner) ELSE inner
    IN  IF (i < n \/ ~rateControl) /\ lead # <<>> /\ lead[Len(lead)].k = "</prosody>"
        THEN SubSeq(lead, 1, Len(lead) - 1) ELSE lead

RECURSIVE ChunkBodies(_, _, _)
ChunkBodies(chunkList, i, rateControl) ==
    IF i > Len(chunkList) THEN <<>>
    ELSE ChunkBody(chunkList[i], i, Len(chunkList), rateControl)
         \o ChunkBodies(chunkList, i + 1, rateControl)

C12_OrderPreserved ==
    chunked =>
        /\ Len(chunks) >= 1
        /\ ChunkBodies(chunks, 1, hasRateControl(RemoveSpeakTags(ssml)))
               = NoSpace(RemoveSpeakTags(ssml))

\* a script with its own prosody element was split into three chunks
C12_Witness ==
    /\ chunked
    /\ hasRateControl(ssml)
    /\ Len(chunks) = 3

(***************************************************************************)
(* Reading the traced history of a session.                                *)
(***************************************************************************)
Steps(s, ev) == SelectSeq(hist[s], LAMBDA e : e.ev = ev)

Happened(s, ev, who) == Positions(s, ev, who) # {}

\* the key of the session's speech artifact and of its final audio
AudioKey(s) == ObjectKey(table[s].userID, currentDate, s, "mp3")

\* the bytes the engine delivered for chunk i, as the history has them
BytesOf(s, i) ==
    IF \E e \in {hist[s][j] : j \in DOMAIN hist[s]} :
           e.ev = "buffer" /\ e.code = i /\ e.who = "audio"
    THEN <<i>> ELSE <<>>

RECURSIVE BytesInOrder(_, _, _)
BytesInOrder(s, i, n) ==
    IF i > n THEN <<>> ELSE BytesOf(s, i) \o BytesInOrder(s, i + 1, n)

(***************************************************************************)
(* C13  The Synthesizer calls the speech engine once per chunk, in chunk   *)
(* index order, and call i+1 only after the audio of call i was received;  *)
(* when it has returned 200 it had made one call per chunk and had stored, *)
(* before returning, a Speech Artifact whose bytes are the per-chunk audio *)
(* in chunk index order.                                                   *)
(***************************************************************************)
C13_SequentialSynthesis ==
    \A s \in Sessions :
        /\ \A j \in DOMAIN Steps(s, "send") : Steps(s, "send")[j].code = j
        /\ \A i \in DOMAIN hist[s] :
               hist[s][i].ev = "send" /\ hist[s][i].code > 1 =>
                   /\ hist[s][i - 1].ev = "buffer"
                   /\ hist[s][i - 1].code = hist[s][i].code - 1
        /\ Returned(s, "textToSpeechLambda", 200) =>
               /\ ObjectExists(s3, CREATION_BUCKET_NAME, AudioKey(s))
               /\ \E c \in Positions(s, "chunks", "polly"),
                     p \in Positions(s, "putObject", "speech"),
                     r \in Positions(s, "return", "textToSpeechLambda") :
                      /\ c < p /\ p < r
                      /\ Len(Steps(s, "send")) = hist[s][c].code
                      /\ Len(Steps(s, "buffer")) = hist[s][c].code
                      /\ hist[s][p].code = BytesInOrder(s, 1, hist[s][c].code)

\* a script of MaxChunks chunks was synthesized and stored
C13_Witness ==
    \E s \in Sessions :
        /\ Returned(s, "textToSpeechLambda", 200)
        /\ \E p \in Positions(s, "putObject", "speech") :
               Len(hist[s][p].code) = MaxChunks /\ MaxChunks > 1
        /\ atState[s] = "CheckTTSStatus"

(***************************************************************************)
(* C14  Synthesis is all or nothing.  Once the engine call for a chunk has *)
(* thrown or returned no audio stream: no later chunk is sent to the       *)
(* engine, no Speech Artifact is stored, the stage does not return 200,    *)
(* the Session never has an audioPath, and when the execution has reached  *)
(* its end the Session is FAILED.                                          *)
(***************************************************************************)
EngineCallFailed(s, k) == hist[s][k].ev \in {"sendThrows", "noAudioStream"}

C14_AllOrNothing ==
    \A s \in Sessions :
        \A k \in DOMAIN hist[s] :
            EngineCallFailed(s, k) =>
                /\ \A j \in DOMAIN hist[s] : j > k => hist[s][j].ev # "send"
                /\ ~Happened(s, "putObject", "speech")
                /\ ~ObjectExists(s3, CREATION_BUCKET_NAME, AudioKey(s))
                /\ ~Returned(s, "textToSpeechLambda", 200)
                /\ ~Has(table[s], "audioPath")
                /\ Ended(s) /\ atState[s] \in EndStates => table[s].status = "FAILED"

(***************************************************************************)
(* C15  An engine result that is empty (a stream of zero bytes) or missing *)
(* (no audio stream) fails the synthesis: no Speech Artifact is stored and *)
(* the stage does not return 200.                                          *)
(***************************************************************************)
EmptyOrMissing(s) ==
    \E k \in DOMAIN hist[s] :
        \/ hist[s][k].ev = "noAudioStream"
        \/ hist[s][k].ev = "buffer" /\ hist[s][k].who = "empty"

C15_EmptyResultFails ==
    \A s \in Sessions :
        EmptyOrMissing(s) =>
            /\ ~Happened(s, "putObject", "speech")
            /\ ~ObjectExists(s3, CREATION_BUCKET_NAME, AudioKey(s))
            /\ ~Returned(s, "textToSpeechLambda", 200)

(***************************************************************************)
(* C16  Track-selection validity.  Whenever selectRandomMusicTrack(d)      *)
(* returns a track, it is the path of a catalog entry whose duration is    *)
(* strictly greater than d; for d = 310 it is never a 300-second entry.    *)
(***************************************************************************)
Catalog == {musicTracks[i] : i \in DOMAIN musicTracks}

C16_SelectionValid ==
    selectedTrack \notin {"unselected", Null} =>
        /\ Len(pickedEntry) = 1
        /\ pickedEntry[1] \in Catalog
        /\ pickedEntry[1].path = selectedTrack
        /\ pickedEntry[1].duration > probedDuration
        /\ probedDuration = 310 => pickedEntry[1].duration # 300

\* a speech of 310 seconds got a track
C16_Witness ==
    /\ probedDuration = 310
    /\ selectedTrack \notin {"unselected", Null}

(***************************************************************************)
(* C17  No-candidate failure.  When the probed speech duration is not      *)
(* below the duration of any catalog track (600 included), the selector    *)
(* returns no track, the Mixer neither downloads a track nor runs the      *)
(* mixing tool, the stage does not return 200, and when the execution has  *)
(* reached its end the Session is FAILED.                                  *)
(***************************************************************************)
NoCandidate(d) == \A track \in Catalog : ~(track.duration > d)

C17_NoCandidateFails ==
    \A s \in Sessions :
        \A k \in DOMAIN hist[s] :
            /\ hist[s][k].ev = "getAudioDuration"
            /\ hist[s][k].who = "ffprobe"
            /\ NoCandidate(hist[s][k].code)
            => /\ Len(Steps(s, "selectRandomMusicTrack")) = 1
               /\ hist[s][k + 1].ev = "selectRandomMusicTrack"
               /\ hist[s][k + 1].who = Null
               /\ ~Happened(s, "getObject", "music")
               /\ ~Happened(s, "getObject", "musicRejected")
               /\ Steps(s, "mixAudio") = <<>>
               /\ ~Returned(s, "joinSpeechAndMusicLambda", 200)
               /\ Ended(s) /\ atState[s] \in EndStates => table[s].status = "FAILED"

(***************************************************************************)
(* C18  A failed mixing step fails the Mixer.  When the ffmpeg process has *)
(* closed with a non-zero exit code or could not be spawned, no Final      *)
(* Artifact is uploaded, the Session is not set to COMPLETED and the stage *)
(* does not return 200; and the handler goes on to the upload only after   *)
(* the process closed with exit code 0.                                    *)
(***************************************************************************)
MixFailed(s) == \E k \in DOMAIN hist[s] : hist[s][k].ev = "mixAudio" /\ hist[s][k].who # "exit0"

C18_MixFailureIsHard ==
    \A s \in Sessions :
        /\ MixFailed(s) =>
               /\ ~Happened(s, "putObject", "final")
               /\ ~Happened(s, "putObject", "finalRejected")
               /\ ObjectExists(s3, USER_SESSION_BUCKET_NAME, AudioKey(s)) =>
                      s3[USER_SESSION_BUCKET_NAME][AudioKey(s)].type # "final"
               /\ Steps(s, "updateItem") = <<>>
               /\ Count(s, "write", "COMPLETED") = 0
               /\ table[s].status # "COMPLETED"
               /\ ~Returned(s, "joinSpeechAndMusicLambda", 200)
        /\ \A p \in DOMAIN hist[s] :
               hist[s][p].ev = "putObject" /\ hist[s][p].who \in {"final", "finalRejected"}
                   => hist[s][p - 1].ev = "mixAudio" /\ hist[s][p - 1].who = "exit0"

\* ffmpeg could not be spawned, the Mixer returned 500 and the workflow
\* went on to the failure handler
C18_Witness ==
    \E s \in Sessions :
        /\ Happened(s, "mixAudio", "spawnError")
        /\ Returned(s, "joinSpeechAndMusicLambda", 500)
        /\ atState[s] = "HandleFailure"

(***************************************************************************)
(* C19  Artifacts are write-once.  No step changes or removes an object    *)
(* that is in the artifact store: the script, the speech and the final     *)
(* audio of a session are stored at distinct locations, so storing one     *)
(* never overwrites another.                                               *)
(***************************************************************************)
C19_KeepsArtifacts ==
    \A b \in Buckets : \A k \in DOMAIN s3[b] :
        k \in DOMAIN s3'[b] /\ s3'[b][k] = s3[b][k]

C19_WriteOnce == [][C19_KeepsArtifacts]_vars

(***************************************************************************)
(* C20  Temp storage is reclaimed.  When the Mixer's handler has returned, *)
(* on whatever path, none of its temp directories and files is left.       *)
(***************************************************************************)
MixerReturned(s) ==
    Count(s, "return", "joinSpeechAndMusicLambda")
        + Count(s, "lateReturn", "joinSpeechAndMusicLambda") > 0

C20_TempReclaimed ==
    \A s \in Sessions : MixerReturned(s) => tmp[s] = {}

(***************************************************************************)
(* C21  Absence of cover art is not an error.  When the download of the    *)
(* cover art has failed, the Mixer goes on to the mixing tool and gives it *)
(* the two audio inputs only; the cover art is an input of the mixing tool *)
(* exactly when its download succeeded; and the Final Artifact of a stage  *)
(* that returned 200 carries cover art exactly in that case.               *)
(***************************************************************************)
AudioInputs == <<speechFilePath, musicFilePath>>

C21_CoverArtOptional ==
    \A s \in Sessions :
        /\ \A k \in DOMAIN hist[s] :
               hist[s][k].ev = "getObject" /\ hist[s][k].who = "albumArtMissing" =>
                   /\ k < Len(hist[s])
                   /\ hist[s][k + 1].ev = "mixAudio"
                   /\ hist[s][k + 1].code = AudioInputs
        /\ \A k \in DOMAIN hist[s] :
               hist[s][k].ev = "mixAudio" =>
                   /\ hist[s][k - 1].ev = "getObject"
                   /\ hist[s][k - 1].who \in {"albumArt", "albumArtMissing"}
                   /\ hist[s][k].code = AudioInputs \o <<albumArtPath>>
                          <=> hist[s][k - 1].who = "albumArt"
                   /\ hist[s][k].code = AudioInputs
                          <=> hist[s][k - 1].who = "albumArtMissing"
        /\ Returned(s, "joinSpeechAndMusicLambda", 200) /\ table[s].status = "COMPLETED" =>
               s3[USER_SESSION_BUCKET_NAME][table[s].audioPath].albumArt
                   = Happened(s, "getObject", "albumArt")

\* the cover art could not be downloaded, and the Mixer stored the final
\* audio, completed the session and returned 200
C21_Witness ==
    \E s \in Sessions :
        /\ Happened(s, "getObject", "albumArtMissing")
        /\ Happened(s, "mixAudio", "exit0")
        /\ Happened(s, "putObject", "final")
        /\ table[s].status = "COMPLETED"
        /\ Returned(s, "joinSpeechAndMusicLambda", 200)
        /\ execStatus[s] = "SUCCEEDED"

(***************************************************************************)
(* C22  Cross-session isolation.  In every interleaving of the workflows   *)
(* of two sessions, a step is a step of one session, and it changes only   *)
(* that session's record and only objects whose key names that session;    *)
(* the record of a session is what its own history makes it: REQUESTED     *)
(* after its creation, then what its own status write set, with the        *)
(* audioPath of its own final audio when that write is COMPLETED.          *)
(***************************************************************************)
\* the session whose handler or workflow took the step
Acted(s) == hist'[s] # hist[s] \/ atState'[s] # atState[s]

\* the session named by an object key
SessionOfKey(k) == k[3]

C22_OwnWritesOnly ==
    /\ \A s, t \in Sessions : Acted(s) /\ Acted(t) => s = t
    /\ \A s \in Sessions : table'[s] # table[s] => Acted(s)
    /\ \A b \in Buckets : \A k \in DOMAIN s3'[b] :
           k \notin DOMAIN s3[b] \/ s3'[b][k] # s3[b][k] =>
               /\ SessionOfKey(k) \in Sessions
               /\ Acted(SessionOfKey(k))

\* the record of session s as its own history determines it
OwnRecord(s) ==
    IF ~Happened(s, "create", "REQUESTED") THEN NoItem
    ELSE [userID |-> table[s].userID, sessionID |-> s,
          status |-> IF StatusWrites(s) = {} THEN "REQUESTED"
                     ELSE hist[s][CHOOSE i \in StatusWrites(s) : TRUE].who,
          timestamp |-> currentTime]
         @@ (IF Count(s, "write", "COMPLETED") > 0
             THEN [audioPath |-> AudioKey(s)] ELSE EmptyObject)

C22_OwnHistoryDecides ==
    \A s \in Sessions :
        /\ Cardinality(StatusWrites(s)) <= 1
        /\ table[s] = OwnRecord(s)

C22_Isolation == [][C22_OwnWritesOnly]_vars /\ []C22_OwnHistoryDecides

\* one session is COMPLETED, with its script and its audio stored, while
\* the Mixer of the other session is in progress
C22_Witness ==
    \E s, t \in Sessions :
        /\ s # t
        /\ table[s].status = "COMPLETED"
        /\ inflight[t].fn = "joinSpeechAndMusicLambda"
        /\ ObjectExists(s3, USER_SESSION_BUCKET_NAME, AudioKey(s))
        /\ ObjectExists(s3, USER_SESSION_BUCKET_NAME, AudioKey(t))

(***************************************************************************)
(* C23  Input validation at stage entry.  A stage handler called with a    *)
(* missing (or empty) userID or sessionID, the Synthesizer also with a     *)
(* missing or white-space-only script, the Mixer also with a missing       *)
(* speechAudioPath, returns statusCode 400 having made no engine call, no  *)
(* read or write of the artifact store and no session update; and after a  *)
(* stage returned 400 the workflow goes to the failure path and invokes no *)
(* stage again.                                                            *)
(***************************************************************************)
MissingString(doc, f) == ~Has(doc, f) \/ doc[f] = ""

\* the document the handler takes its inputs from
InputsOf(fn, event) ==
    IF fn = "generateScriptLambda" THEN event
    ELSE IF Has(event, "body") THEN JSONparse(event.body)
    ELSE EmptyObject

InvalidEntry(fn, event) ==
    LET doc == InputsOf(fn, event)
    IN  \/ MissingString(doc, "userID")
        \/ MissingString(doc, "sessionID")
        \/ fn = "textToSpeechLambda"
               /\ (MissingString(doc, "script") \/ doc.script \in WhitespaceOnly)
        \/ fn = "joinSpeechAndMusicLambda"
               /\ (~Has(doc, "speechAudioPath") \/ doc.speechAudioPath = EmptyKey)

\* the step in which the handler invoked for session s returns
HandlerReturnStep(s) ==
    /\ inflight[s].fn # "none"
    /\ inflight'[s].fn = "none"
    /\ Len(hist'[s]) > Len(hist[s])
    /\ hist'[s][Len(hist'[s])].ev \in {"return", "lateReturn"}

C23_RejectStep ==
    \A s \in Sessions :
        /\ inflight[s].fn \in StageLambdas
        /\ InvalidEntry(inflight[s].fn, inflight[s].event)
        /\ HandlerReturnStep(s)
        => /\ Len(hist'[s]) = Len(hist[s]) + 1
           /\ hist'[s][Len(hist'[s])].code = 400
           /\ s3' = s3
           /\ table' = table
           /\ tmp' = tmp

StageOf(fn) ==
    CASE fn = "generateScriptLambda"     -> "GenerateScript"
      [] fn = "textToSpeechLambda"       -> "TextToSpeech"
      [] fn = "joinSpeechAndMusicLambda" -> "JoinAudio"

C23_Routing ==
    \A s \in Sessions : \A fn \in StageLambdas :
        Returned(s, fn, 400) =>
            /\ Count(s, "invoke", fn) = 1
            /\ NoStageAfter(s, fn)
            /\ atState[s] \in {NextOf(StageOf(fn)), "HandleFailure", "WorkflowFailed"}

C23_EntryValidation == [][C23_RejectStep]_vars /\ []C23_Routing

\* an execution whose input has no userID: GenerateScript returned 400 at
\* once, the failure handler was invoked and the execution ended
C23_Witness ==
    \E s \in Sessions :
        /\ ~Has(execInput[s], "userID")
        /\ Len(hist[s]) >= 4
        /\ hist[s][1] = Event("invoke", "generateScriptLambda", 0)
        /\ hist[s][2] = Event("return", "generateScriptLambda", 400)
        /\ hist[s][3] = Event("invoke", "creationFailedLambda", 0)
        /\ atState[s] = "WorkflowFailed"
        /\ execStatus[s] = "FAILED"

(***************************************************************************)
(* C24  The record precedes the workflow.  A session whose execution has   *)
(* been started has a Session record, created with status REQUESTED, and   *)
(* the execution input carries the userID and sessionID of that record;    *)
(* so whenever a stage or the failure handler is invoked, the record of    *)
(* the session named in its execution's input exists.                      *)
(***************************************************************************)
C24_RecordBeforeWorkflow ==
    \A s \in Sessions :
        /\ execStatus[s] # "NOT_STARTED" =>
               /\ table[s].status # "NONE"
               /\ Happened(s, "create", "REQUESTED")
               /\ hist[s][1] = Event("create", "REQUESTED", 0)
               /\ execInput[s].sessionID = table[s].sessionID
               /\ execInput[s].userID = table[s].userID
               /\ execInput[s].sessionID = s
        /\ inflight[s].fn # "none" \/ Len(hist[s]) > 1 =>
               /\ execInput[s].sessionID \in Sessions
               /\ table[execInput[s].sessionID].status # "NONE"

\* the execution has just been started: the record is REQUESTED and no
\* stage has been invoked yet
C24_Witness ==
    \E s \in Sessions :
        /\ execStatus[s] = "RUNNING"
        /\ atState[s] = "GenerateScript"
        /\ inflight[s].fn = "none"
        /\ table[s].status = "REQUESTED"
        /\ hist[s] = <<Event("create", "REQUESTED", 0)>>

(***************************************************************************)
(* C25  No partial rollback.  A step of the failure path (the HandleFailure *)
(* state and its handler) changes no object of the artifact store and, of  *)
(* the Session record, only the status; and once a stage has failed, the   *)
(* artifacts the earlier stages stored are still there as they were        *)
(* stored: the script where the Script Generator returned 200, the speech  *)
(* where the Synthesizer returned 200.                                     *)
(***************************************************************************)
OnFailurePath(s) ==
    atState[s] = "HandleFailure" \/ inflight[s].fn = "creationFailedLambda"

C25_FailurePathStep ==
    \A s \in Sessions :
        OnFailurePath(s) /\ Acted(s) =>
            /\ s3' = s3
            /\ DOMAIN table'[s] = DOMAIN table[s]
            /\ \A f \in DOMAIN table[s] \ {"status"} : table'[s][f] = table[s][f]
            /\ table'[s].status \in {table[s].status, "FAILED"}

ScriptKey(s) == ObjectKey(table[s].userID, currentDate, s, "json")

C25_ArtifactsKept ==
    \A s \in Sessions :
        SomeStageReturnedNon200(s) \/ SomeStageThrew(s) =>
            /\ Returned(s, "generateScriptLambda", 200) =>
                   /\ ObjectExists(s3, CREATION_BUCKET_NAME, ScriptKey(s))
                   /\ s3[CREATION_BUCKET_NAME][ScriptKey(s)].type = "script"
            /\ Returned(s, "textToSpeechLambda", 200) =>
                   /\ ObjectExists(s3, CREATION_BUCKET_NAME, AudioKey(s))
                   /\ s3[CREATION_BUCKET_NAME][AudioKey(s)].type = "speech"

C25_FailurePathFrame == [][C25_FailurePathStep]_vars

C25_NoRollback == [][C25_FailurePathStep]_vars /\ []C25_ArtifactsKept

(***************************************************************************)
(* C26  The failure handler marks the session of the execution input.      *)
(* Whenever the failure handler is invoked, the sessionID it resolves from *)
(* its payload is the sessionID of the execution input; a step of the      *)
(* handler changes no record but that one, and only to FAILED; and an      *)
(* execution that went to HandleFailure and ended, whichever stage failed  *)
(* and however, has left that Session FAILED.                              *)
(***************************************************************************)
C26_Resolved ==
    \A s \in Sessions :
        /\ inflight[s].fn = "creationFailedLambda" =>
               /\ Truthy(CreationFailedEventBody(inflight[s].event), "sessionID")
               /\ CreationFailedEventBody(inflight[s].event).sessionID
                      = execInput[s].sessionID
               /\ execInput[s].sessionID = s
        /\ ~Returned(s, "creationFailedLambda", 400)

C26_HandlerStep ==
    \A s \in Sessions :
        inflight[s].fn = "creationFailedLambda" /\ Acted(s) =>
            \A t \in Sessions :
                table'[t] # table[t] =>
                    /\ t = execInput[s].sessionID
                    /\ table'[t].status = "FAILED"

C26_HandlerResolves == []C26_Resolved /\ [][C26_HandlerStep]_vars

C26_Marked ==
    \A s \in Sessions :
        Ended(s) /\ atState[s] \in {"HandleFailure", "WorkflowFailed"} =>
            table[execInput[s].sessionID].status = "FAILED"

C26_FailureHandlerMarks ==
    /\ []C26_Resolved
    /\ [][C26_HandlerStep]_vars
    /\ []C26_Marked

(***************************************************************************)
(* Reading the chunks against the script.                                  *)
(***************************************************************************)
\* the script's content, white space aside
Source == NoSpace(RemoveSpeakTags(ssml))

SourceRateControl == hasRateControl(RemoveSpeakTags(ssml))

\* what chunk i holds of the script
BodyOf(i) == ChunkBody(chunks[i], i, Len(chunks), SourceRateControl)

\* the number of tokens of the script in the chunks 1..i
RECURSIVE BoundaryAfter(_)
BoundaryAfter(i) == IF i = 0 THEN 0 ELSE Len(BodyOf(i)) + BoundaryAfter(i - 1)

IsWithin(seg, body) ==
    \E a \in 0..(Len(body) - Len(seg)) : SubSeq(body, a + 1, a + Len(seg)) = seg

\* the pause-delimited segments of the script, with their white space
SourceSegments == SplitOnBreaks(Trim(RemoveSpeakTags(ssml)), <<>>)

SourceSafeMax == safeMaxLength(maxLengthDefault, SourceRateControl)

(***************************************************************************)
(* C27  Chunks are split only at pause markers.  Every chunk is a stretch  *)
(* of the script; the stretch of every chunk but the last ends with a      *)
(* <break/> of the script; every pause-delimited segment lies within one   *)
(* chunk; and a segment that alone is longer than safeMax is the only      *)
(* segment of its chunk.                                                   *)
(***************************************************************************)
C27_SplitAtBreaksOnly ==
    chunked =>
        /\ BoundaryAfter(Len(chunks)) = Len(Source)
        /\ \A i \in DOMAIN chunks :
               BodyOf(i) = SubSeq(Source, BoundaryAfter(i - 1) + 1, BoundaryAfter(i))
        /\ \A i \in 1..(Len(chunks) - 1) :
               /\ BoundaryAfter(i) > BoundaryAfter(i - 1)
               /\ Source[BoundaryAfter(i)].k = "<break/>"
        /\ \A j \in DOMAIN SourceSegments :
               \E i \in DOMAIN chunks : IsWithin(NoSpace(SourceSegments[j]), BodyOf(i))
        /\ \A j \in DOMAIN SourceSegments :
               StrLen(SourceSegments[j]) > SourceSafeMax =>
                   \E i \in DOMAIN chunks :
                       SelectSeq(BodyOf(i), LAMBDA tok : tok.k # "<break/>")
                           = NoSpace(SourceSegments[j])

\* a script of three segments, the second one longer than safeMax, came
\* out as three chunks
C27_Witness ==
    /\ chunked
    /\ Len(SourceSegments) = 3
    /\ StrLen(SourceSegments[2]) > SourceSafeMax
    /\ StrLen(SourceSegments[1]) < SourceSafeMax
    /\ Len(chunks) = 3

(***************************************************************************)
(* C28  Greedy accumulation.  When the script was split: a chunk holds     *)
(* more than one segment only if, with its last segment and that           *)
(* segment's pause marker, the running chunk was not longer than safeMax;  *)
(* and every chunk but the last was closed because the running chunk with  *)
(* the segment that follows it, and that segment's pause marker, would     *)
(* have been longer than safeMax.                                          *)
(***************************************************************************)
\* the running chunk as it was when chunk i was pushed: without the
\* closing tag added to a chunk that is closed
Running(i) ==
    IF i < Len(chunks) THEN SubSeq(Inner(chunks[i]), 1, Len(Inner(chunks[i])) - 1)
    ELSE Inner(chunks[i])

UpToFirstBreak(str) ==
    LET hits == {p \in DOMAIN str : str[p].k = "<break/>"}
    IN  IF hits = {} THEN str
        ELSE SubSeq(str, 1, CHOOSE p \in hits : \A q \in hits : p <= q)

\* the segment chunk j starts with, after the re-opened tag and its space,
\* with its pause marker
FirstSegment(j) ==
    UpToFirstBreak(SubSeq(Running(j), 3, Len(Running(j))))

\* the segments put into chunk i
SegmentsIn(i) ==
    Len(BreakMatches(Running(i))) + (IF i < Len(chunks) THEN 0 ELSE 1)

C28_Greedy ==
    chunked /\ Len(chunks) > 1 =>
        /\ \A i \in DOMAIN chunks :
               SegmentsIn(i) > 1 => StrLen(Running(i)) <= SourceSafeMax
        /\ \A i \in 1..(Len(chunks) - 1) :
               /\ Trim(Running(i)) # <<>>
               /\ StrLen(Running(i)) + StrLen(FirstSegment(i + 1)) > SourceSafeMax

\* two segments fill the first chunk exactly to safeMax, and the third
\* segment went into a second chunk
C28_Witness ==
    /\ chunked
    /\ Len(chunks) = 2
    /\ SegmentsIn(1) = 2
    /\ StrLen(Running(1)) = SourceSafeMax

(***************************************************************************)
(* C29  chunkSSMLText returns at least one chunk.  With safeMax = L less   *)
(* the length of the <speak> wrapper, less the length of the pacing tags   *)
(* unless the script has a rate directive: when the pacing-wrapped content *)
(* is at most safeMax long, the result is the one chunk <speak>content     *)
(* </speak>; and there is more than one chunk only when the content is     *)
(* longer than safeMax.                                                    *)
(***************************************************************************)
\* the script's content with the pacing tags, when it has no rate directive
PacingWrapped ==
    IF SourceRateControl THEN Trim(RemoveSpeakTags(ssml))
    ELSE <<ProsodySlow>> \o Trim(RemoveSpeakTags(ssml)) \o <<ProsodyClose>>

WrapperTagLength == StrLen(<<SpeakOpen, SpeakClose>>)

PacingTagLength == StrLen(<<ProsodySlow, ProsodyClose>>)

C29_SafeMax ==
    maxLengthDefault - WrapperTagLength - (IF SourceRateControl THEN 0 ELSE PacingTagLength)

C29_SingleChunkWhenFits ==
    chunked =>
        /\ Len(chunks) >= 1
        /\ StrLen(PacingWrapped) <= C29_SafeMax =>
               chunks = << <<SpeakOpen>> \o PacingWrapped \o <<SpeakClose>> >>
        /\ Len(chunks) > 1 => StrLen(PacingWrapped) > C29_SafeMax

\* a script with a rate directive of its own came out as one chunk; it
\* would not have fitted had the pacing tags been counted
C29_Witness ==
    /\ chunked
    /\ SourceRateControl
    /\ Len(BreakMatches(ssml)) > 0
    /\ StrLen(PacingWrapped) > maxLengthDefault - WrapperTagLength - PacingTagLength
    /\ StrLen(PacingWrapped) <= C29_SafeMax
    /\ Len(chunks) = 1

(***************************************************************************)
(* C30  Random selection covers the candidate set.  For the speech         *)
(* duration d the selector is called with: the index computed from any     *)
(* random draw is within the list of qualifying entries; every catalog     *)
(* entry whose duration is strictly greater than d is the entry picked,    *)
(* and its path the result, for some random draw; and the entry picked in  *)
(* this call is the one at the computed index.                             *)
(***************************************************************************)
RandomDraws == 0..(RandomSteps - 1)

C30_SelectionCovers ==
    LET d == probedDuration
        n == Len(suitableTracks(d))
    IN  /\ \A r \in RandomDraws : n > 0 => randomIndex(r, n) \in 0..(n - 1)
        /\ \A track \in Catalog :
               track.duration > d =>
                   \E r \in RandomDraws :
                       /\ pickedTrack(d, r) = <<track>>
                       /\ selectRandomMusicTrack(d, r) = track.path
        /\ selectedTrack \notin {"unselected", Null} =>
               pickedEntry = <<suitableTracks(d)[randomIndex(randomDraw, n) + 1]>>

\* all four entries qualified and the last one, the longest track, was
\* picked
C30_Witness ==
    /\ selectedTrack \notin {"unselected", Null}
    /\ Len(suitableTracks(probedDuration)) = Len(musicTracks)
    /\ pickedEntry = <<musicTracks[Len(musicTracks)]>>

(***************************************************************************)
(* C31  Stage hand-off integrity.  The key the Synthesizer returns in its  *)
(* success body is the key under which it stored the Speech Artifact in    *)
(* that invocation; the Mixer is invoked with that key and mixes the       *)
(* object it finds under it in the same bucket, the speech of its own      *)
(* session; the userID and sessionID of every success body are those of    *)
(* the execution input; so a session is COMPLETED only by the Mixer of its *)
(* own execution, with the audio mixed from its own speech.                *)
(***************************************************************************)
\* the step in which fn's response with statusCode code reached session s
ReturnsNow(s, fn, code) ==
    /\ Len(hist'[s]) > Len(hist[s])
    /\ LET e == hist'[s][Len(hist'[s])]
       IN  e.ev = "return" /\ e.who = fn /\ e.code = code

SpeechOf(s) == [type |-> "speech", id |-> s]

C31_SynthesizerStep ==
    \A s \in Sessions :
        ReturnsNow(s, "textToSpeechLambda", 200) =>
            LET path == JSONparse(stateData'[s].body).speechAudioPath
            IN  /\ ~ObjectExists(s3, CREATION_BUCKET_NAME, path)
                /\ ObjectExists(s3', CREATION_BUCKET_NAME, path)
                /\ s3'[CREATION_BUCKET_NAME][path] = SpeechOf(s)
                /\ \A k \in DOMAIN s3'[CREATION_BUCKET_NAME] :
                       k \notin DOMAIN s3[CREATION_BUCKET_NAME] => k = path

\* the ids a success body carries are those of the execution input
CarriesInputIds(s, doc) ==
    isStatus200(doc) /\ Has(doc, "body") =>
        LET b == JSONparse(doc.body)
        IN  /\ Has(b, "sessionID") => b.sessionID = execInput[s].sessionID
            /\ Has(b, "userID") => b.userID = execInput[s].userID

C31_Carried ==
    \A s \in Sessions :
        /\ execStatus[s] # "NOT_STARTED" => execInput[s].sessionID = s
        /\ CarriesInputIds(s, stateData[s])
        /\ inflight[s].fn \in StageLambdas => CarriesInputIds(s, inflight[s].event)
        /\ inflight[s].fn = "joinSpeechAndMusicLambda" =>
               LET b == JSONparse(inflight[s].event.body)
               IN  /\ b.speechAudioPath = AudioKey(s)
                   /\ ObjectExists(s3, USER_SESSION_BUCKET_NAME, b.speechAudioPath)
        /\ table[s].status = "COMPLETED" =>
               /\ Happened(s, "invoke", "joinSpeechAndMusicLambda")
               /\ table[s].userID = execInput[s].userID
               /\ table[s].audioPath = AudioKey(s)
               /\ ObjectExists(s3, USER_SESSION_BUCKET_NAME, table[s].audioPath)
               /\ s3[USER_SESSION_BUCKET_NAME][table[s].audioPath].type = "final"

\* every final audio was mixed from the speech of the session its key names
C31_MixedFromOwnSpeech ==
    \A k \in DOMAIN s3[USER_SESSION_BUCKET_NAME] :
        s3[USER_SESSION_BUCKET_NAME][k].type = "final" =>
            s3[USER_SESSION_BUCKET_NAME][k].speech = SpeechOf(SessionOfKey(k))

C31_HandOffIntegrity ==
    /\ [][C31_SynthesizerStep]_vars
    /\ [](C31_Carried /\ C31_MixedFromOwnSpeech)

\* both sessions went through all three stages and are COMPLETED
C31_Witness ==
    \A s \in Sessions :
        /\ table[s].status = "COMPLETED"
        /\ Returned(s, "textToSpeechLambda", 200)
        /\ Returned(s, "joinSpeechAndMusicLambda", 200)
        /\ s3[USER_SESSION_BUCKET_NAME][AudioKey(s)].speech = SpeechOf(s)

(***************************************************************************)
(* C32  Script Generator outcome ordering.  The stage answers statusCode   *)
(* 200 only after its PutObject of the Script Artifact, and the artifact   *)
(* is then in the store; when the call of the generation engine rejects,   *)
(* answers with a non-OK response or answers without text, the stage makes *)
(* no PutObject, answers statusCode 500, and no Script Artifact is stored. *)
(***************************************************************************)
\* the handler's answer, whether or not the execution still waits for it
Answered(s, i, fn, code) ==
    /\ hist[s][i].ev \in {"return", "lateReturn"}
    /\ hist[s][i].who = fn
    /\ hist[s][i].code = code

ScriptPutBefore(s, i) ==
    \E j \in 1..(i - 1) : hist[s][j].ev = "putObject" /\ hist[s][j].who = "script"

C32_ScriptOutcomeOrdering ==
    LET s == TracedSession
    IN  /\ \A i \in DOMAIN hist[s] :
               Answered(s, i, "generateScriptLambda", 200) =>
                   /\ ScriptPutBefore(s, i)
                   /\ ObjectExists(s3, CREATION_BUCKET_NAME, ScriptKey(s))
                   /\ s3[CREATION_BUCKET_NAME][ScriptKey(s)] = [type |-> "script", id |-> s]
        /\ \A i \in DOMAIN hist[s] :
               hist[s][i].ev = "fetch" /\ hist[s][i].who # "text" =>
                   /\ i + 1 \in DOMAIN hist[s]
                   /\ Answered(s, i + 1, "generateScriptLambda", 500)
                   /\ ~\E j \in DOMAIN hist[s] : hist[s][j].ev = "putObject"
                   /\ ~ObjectExists(s3, CREATION_BUCKET_NAME, ScriptKey(s))

\* the engine answered without text, the stage answered 500, and the
\* execution went on to the failure path with no script stored
C32_Witness ==
    LET s == TracedSession
    IN  /\ Happened(s, "fetch", "noContent")
        /\ Returned(s, "generateScriptLambda", 500)
        /\ atState[s] = "WorkflowFailed"
        /\ s3[CREATION_BUCKET_NAME] = EmptyObject

(***************************************************************************)
(* C33  Chunk length bound when every segment is small.  If each           *)
(* pause-delimited segment of the script, together with its trailing       *)
(* <break/> and a re-opened pacing tag, is at most safeMax characters      *)
(* long, every chunk chunkSSMLText returns is at most maxLength (3000)     *)
(* characters long, whether the chunker adds the pacing wrapper itself or  *)
(* the script carries a <prosody rate=...> of its own.                     *)
(***************************************************************************)
\* segment + its <break/> + the re-opened pacing tag fits within safeMax
SegmentFits(seg) ==
    StrLen(Trim(seg)) + StrLen(<<BreakTag(0)>>) + StrLen(<<ProsodySlow>>) <= SourceSafeMax

AllSegmentsSmall == \A i \in DOMAIN SourceSegments : SegmentFits(SourceSegments[i])

ChunksWithinLimit == \A i \in DOMAIN chunks : StrLen(chunks[i]) <= maxLengthDefault

\* the part of the claim for scripts without a rate directive
C33_BoundWhenChunkerPaces ==
    chunked /\ AllSegmentsSmall /\ ~SourceRateControl => ChunksWithinLimit

C33_SmallSegmentsBound ==
    chunked /\ AllSegmentsSmall => ChunksWithinLimit

(***************************************************************************)
(* C34  Session status agrees with the workflow outcome.  An execution is  *)
(* in WorkflowSucceeded only when the Session's status is COMPLETED, and   *)
(* the execution of a Session whose status is COMPLETED ends in            *)
(* WorkflowSucceeded: it is not in WorkflowFailed, and once it has ended   *)
(* it has succeeded.                                                       *)
(***************************************************************************)
\* the part of the claim about the two terminal states
C34_TerminalStatesAgree ==
    \A s \in Sessions :
        /\ atState[s] = "WorkflowSucceeded" => table[s].status = "COMPLETED"
        /\ table[s].status = "COMPLETED" => atState[s] # "WorkflowFailed"

C34_StatusAgreesWithOutcome ==
    /\ C34_TerminalStatesAgree
    /\ \A s \in Sessions :
           table[s].status = "COMPLETED" /\ execStatus[s] # "RUNNING" =>
               execStatus[s] = "SUCCEEDED"

(***************************************************************************)
(* C35  Every Session record gets a workflow.  Distinct sessions obtain    *)
(* distinct executions: the execution names of two sessions with a record  *)
(* never collide; and every sessionID the intake handler has put a record  *)
(* for is the input of an execution, so no record is left REQUESTED with   *)
(* no workflow to move it on.                                              *)
(***************************************************************************)
HasExecution(sessionID) ==
    \E name \in DOMAIN executionNames : executionNames[name] = sessionID

C35_NamesNeverCollide ==
    \A a, b \in requested : a # b => ExecutionName(a) # ExecutionName(b)

C35_NoRecordWithoutWorkflow == \A sessionID \in requested : HasExecution(sessionID)

\* what does hold: an execution is started only for a session with a record
C35_ExecutionsHaveRecords ==
    \A name \in DOMAIN executionNames :
        /\ executionNames[name] \in requested
        /\ name = ExecutionName(executionNames[name])

C35_EveryRecordGetsWorkflow ==
    /\ C35_NamesNeverCollide
    /\ C35_NoRecordWithoutWorkflow

(***************************************************************************)
(* C36  The track catalog maps each path to a single capacity.  No two     *)
(* catalog entries have the same path and different durations, so the      *)
(* path selectRandomMusicTrack(d) returns is the path of entries that all  *)
(* have a duration strictly greater than d.                                *)
(***************************************************************************)
EntriesOf(path) == {track \in Catalog : track.path = path}

\* the catalog fact the claim starts from
C36_OneDurationPerPath ==
    \A a, b \in Catalog : a.path = b.path => a.duration = b.duration

C36_PathCapacity ==
    selectedTrack \notin {"unselected", Null} =>
        \A track \in EntriesOf(selectedTrack) : track.duration > probedDuration

(***************************************************************************)
(* C37  A presigned audio URL is issued only for a COMPLETED session.      *)
(* Whenever the handler returns a URL, the session's record has audioPath  *)
(* set, its status is COMPLETED by the Mixer's write, and the URL is for   *)
(* that audioPath; for a session that is REQUESTED or FAILED, that has no  *)
(* record, or for a call without sessionID, the handler throws.            *)
(***************************************************************************)
C37_CallStep ==
    presigned' # presigned =>
        LET sessionID == presigned'.sessionID
            exists == sessionID \in Sessions /\ table[sessionID] # NoItem
        IN  /\ presigned'.outcome = "returns" =>
                /\ exists
                /\ Has(table[sessionID], "audioPath")
                /\ table[sessionID].status = "COMPLETED"
                /\ Count(sessionID, "write", "COMPLETED") = 1
                /\ presigned'.presignedUrl =
                       [Bucket |-> USER_SESSION_BUCKET_NAME, Key |-> table[sessionID].audioPath]
                /\ ObjectExists(s3, USER_SESSION_BUCKET_NAME, table[sessionID].audioPath)
            /\ ~exists \/ table[sessionID].status \in {"REQUESTED", "FAILED"} =>
                /\ presigned'.outcome = "throws"
                /\ ~Has(presigned', "presignedUrl")

RECURSIVE SumOfLimits(_)
SumOfLimits(fns) ==
    IF fns = {} THEN 0
    ELSE LET fn == CHOOSE f \in fns : TRUE
         IN  TimeLimit(fn) + SumOfLimits(fns \ {fn})

ExecutionTimeoutDue == Elapsed >= WorkflowBudget

C38_WithinBudget ==
    /\ SumOfLimits(Lambdas) < WorkflowBudget
    /\ \A fn \in Lambdas : spent[fn] <= TimeLimit(fn)
    /\ \A s \in Sessions : Count(s, "invoke", "generateScriptLambda") <= 1
                           /\ Count(s, "invoke", "textToSpeechLambda") <= 1
                           /\ Count(s, "invoke", "joinSpeechAndMusicLambda") <= 1
                           /\ Count(s, "invoke", "creationFailedLambda") <= 1
    /\ ~ExecutionTimeoutDue

\* the step in which the invocation of session s fails at its timeout
TimesOutNow(s) ==
    /\ inflight[s].fn # "none"
    /\ spent[inflight[s].fn] = TimeLimit(inflight[s].fn)
    /\ inflight'[s].fn = "none"
    /\ Len(hist'[s]) > Len(hist[s])
    /\ hist'[s][Len(hist'[s])].ev = "throw"

C38_TimeoutStep ==
    \A s \in Sessions :
        TimesOutNow(s) =>
            /\ execStatus[s] = "RUNNING"
            /\ ~ExecutionTimeoutDue
            /\ IF inflight[s].fn \in StageLambdas
               THEN /\ execStatus'[s] = "RUNNING"
                    /\ atState'[s] = "HandleFailure"
                    /\ stateData'[s] = ErrorOutput
               ELSE execStatus'[s] = "FAILED"

C38_StageTimeoutBeforeBudget == []C38_WithinBudget /\ [][C38_TimeoutStep]_vars

\* the first two stages used up their time limits and returned, and the
\* Mixer ran into its timeout: the Catch has led to HandleFailure
C38_Witness ==
    /\ spent["generateScriptLambda"] = TimeLimit("generateScriptLambda")
    /\ spent["textToSpeechLambda"] = TimeLimit("textToSpeechLambda")
    /\ spent["joinSpeechAndMusicLambda"] = TimeLimit("joinSpeechAndMusicLambda")
    /\ Count(TracedSession, "throw", "joinSpeechAndMusicLambda") = 1
    /\ atState[TracedSession] = "HandleFailure"
    /\ execStatus[TracedSession] = "RUNNING"

====
